---- MODULE Spec2Model ----
(***************************************************************************)
(* The image manager of avocado-vt (virttest/vt_imgr): the registry of     *)
(* upper-level qemu images, each an ordered mapping of lower-level layer   *)
(* objects with a topology ({none: [name]} or {chain: [base, ..., top]}),  *)
(* every layer backed by one volume resource of a pool (virttest/vt_resmgr)*)
(* A handler is one action; what a call returns or raises is recorded in   *)
(* the variable last.                                                      *)
(***************************************************************************)
EXTENDS Integers, Sequences, FiniteSets, TLC

VARIABLES
  vt_imgr,     \* _VTImageManager._images: image id -> image object
  resources,   \* _ResourcePool._resources: resource id -> resource object
  uuid,        \* number of uuid.uuid4() values drawn so far
  last,        \* the last call: its arguments, what it raised, its remote calls
  pools,       \* the pool objects constructed so far: pool id -> pool_meta
  cluster,     \* the cluster: the names of all its nodes and of its partition
  rebasing,    \* the rebase calls under way: thread -> its position and locals
  vt_netportmgr \* _VTNetworkPortManager: its _res_config and _resource_id

vars == <<vt_imgr, resources, uuid, last, pools, cluster, rebasing, vt_netportmgr>>

----------------------------------------------------------------------------
(* Bounds of the model *)

MaxUuid == 5
MaxChain == 3
MaxImages == 2
MaxDefined == 1
MaxResources == 2
MaxPoolUuid == 3
MaxBackupUuid == 6

(* The values the inputs are drawn from *)

LayerNames == {"base", "sn", "top"}
ClusterNodes == {"n1", "n2"}
PoolNodes == {"n1"}
PoolId == "pool1"
PoolIds == {"pool1", "pool2"}
BridgePools == {"br0"}
ResourceNames == {"vol"}
ImagePaths == {"vol", "/img/vol"}
Commands == {"bind", "unbind", "allocate", "release"}
Postfixes == {"k3"}
BackupPostfixes == {"k3", "p7"}
Outs == {"disk full", "locked"}
None == "None"
NoVolume == 0

\* (image_name, image_chain) of the cartesian params given to define_image_config
Params ==
  { <<"base", <<>>>>, <<"base", <<"base">>>>, <<"sn", <<"base", "sn">>>> }

\* what node.proxy.image.update_image returns: (r, o)
RemoteResults ==
  {[r |-> 0, out |-> "done"]} \cup {[r |-> 1, out |-> t] : t \in Outs}

----------------------------------------------------------------------------
(* Python's list and dict operations *)

Last(s) == s[Len(s)]

Range(s) == {s[i] : i \in DOMAIN s}

Put(d, k, v) == [x \in DOMAIN d \cup {k} |-> IF x = k THEN v ELSE d[x]]

\* list.remove(x): the first occurrence goes
RemoveFirst(s, x) ==
  LET i == CHOOSE j \in DOMAIN s : s[j] = x /\ \A h \in 1..(j - 1) : s[h] # x
  IN  [h \in 1..(Len(s) - 1) |-> IF h < i THEN s[h] ELSE s[h + 1]]

\* the OrderedDict self._images, a sequence of layer objects in insertion order
Keys(images) == {images[i].key : i \in DOMAIN images}

Get(images, k) == images[CHOOSE i \in DOMAIN images : images[i].key = k]

Set(images, k, o) ==
  IF k \in Keys(images)
  THEN [i \in DOMAIN images |-> IF images[i].key = k THEN o ELSE images[i]]
  ELSE Append(images, o)

Pop(images, k) == SelectSeq(images, LAMBDA o : o.key # k)

----------------------------------------------------------------------------
(* A call in progress: the image it runs on, the pool's resources, the     *)
(* uuids drawn, the exception raised (if any), the remote calls issued and *)
(* the resource handlers run, in order.                                    *)

Call(img, res, n) ==
  [img |-> img, res |-> res, uuid |-> n, exc |-> "none", msg |-> "", calls |-> <<>>,
   updates |-> <<>>]

Raise(s, exc, msg) == [s EXCEPT !.exc = exc, !.msg = msg]

\* a remote call whose status is never looked at
Remote_unchecked(s, cmd, source, target, result) ==
  [s EXCEPT !.calls = Append(@, [cmd |-> cmd, source |-> source, target |-> target,
                                 r |-> result.r, out |-> result.out])]

\* r, o = node.proxy.image.update_image(...); if r != 0: raise Exception(o["out"])
\* (the call and the (r, o) it returned are logged in calls)
Remote(s, cmd, source, target, result) ==
  LET t == [s EXCEPT !.calls =
                       Append(@, [cmd |-> cmd, source |-> source, target |-> target,
                                  r |-> result.r, out |-> result.out])]
  IN  IF result.r # 0 THEN Raise(t, "Exception", result.out) ELSE t

----------------------------------------------------------------------------
(* Resources of the pool *)

bind(r, nodes) ==
  [r EXCEPT !.bindings = @ \cup (IF nodes = {} THEN PoolNodes ELSE nodes)]

unbind(r, nodes) ==
  [r EXCEPT !.bindings = IF nodes = {} THEN {} ELSE @ \ nodes]

allocate(r) == [r EXCEPT !.allocated = TRUE]

release(r) == [r EXCEPT !.allocated = FALSE]

\* a handler table whose release entry is the allocate handler
get_update_handler_release_allocates(cmd, r, nodes) ==
  CASE cmd = "bind" -> bind(r, nodes)
    [] cmd = "unbind" -> unbind(r, nodes)
    [] cmd = "allocate" -> allocate(r)
    [] cmd = "release" -> allocate(r)
    [] OTHER -> r

get_update_handler(cmd, r, nodes) ==
  CASE cmd = "bind" -> bind(r, nodes)
    [] cmd = "unbind" -> unbind(r, nodes)
    [] cmd = "allocate" -> allocate(r)
    [] cmd = "release" -> release(r)
    [] OTHER -> r

\* an update that never looks at the nodes argument
update_resource_unchecked(s, id, cmd, nodes) ==
  IF id \notin DOMAIN s.res
  THEN Raise(s, "AttributeError", "NoneType")
  ELSE [s EXCEPT !.res = Put(@, id, get_update_handler(cmd, @[id], nodes)),
                 !.updates = Append(@, [cmd |-> cmd, id |-> id,
                                        after |-> Len(s.calls)])]

\* _ResourcePool.update_resource; the handler run is noted in updates with
\* the number of remote calls of the image made before it
update_resource(s, id, cmd, nodes) ==
  IF nodes # {} /\ ~(nodes \subseteq PoolNodes)
  THEN Raise(s, "ValueError", "Not all nodes can access the pool")
  ELSE IF id \notin DOMAIN s.res
  THEN Raise(s, "AttributeError", "NoneType")
  ELSE [s EXCEPT !.res = Put(@, id, get_update_handler(cmd, @[id], nodes)),
                 !.updates = Append(@, [cmd |-> cmd, id |-> id,
                                        after |-> Len(s.calls)])]

create_resource_object(s) ==
  [s EXCEPT !.uuid = @ + 1,
            !.res = Put(@, s.uuid + 1,
                        [pool |-> PoolId, allocated |-> FALSE, bindings |-> {}])]

destroy_resource_object(s, id) ==
  IF id \notin DOMAIN s.res THEN Raise(s, "KeyError", "resource")
  ELSE [s EXCEPT !.res = [x \in DOMAIN @ \ {id} |-> @[x]]]

\* os.path.isabs(image_name)
isabs(image_name) == image_name \in {"/img/vol"}

\* _FileVolume._define_config_legacy, on _Volume's and _Resource's: the config
\* of a file volume nobody owns yet; an absolute image_name is its uri
resource_define_config(resource_name, image_name) ==
  [name |-> resource_name, type |-> "volume", pool |-> None,
   allocated |-> FALSE, bindings |-> {},
   uri |-> IF isabs(image_name) THEN image_name ELSE None]

\* a resource configuration the pool did not put its id on
define_resource_config_unstamped(pool_id, resource_name, image_name) ==
  resource_define_config(resource_name, image_name)

\* _ResourcePool.define_resource_config of the pool pool_id
define_resource_config(pool_id, resource_name, image_name) ==
  [resource_define_config(resource_name, image_name) EXCEPT !.pool = pool_id]

\* a copy of the resource's config that is renamed and moved, and not reset
define_config_from_self_unreset(resource, pool_id, postfix) ==
  [x \in DOMAIN resource |->
     CASE x = "name" -> resource.name \o "_" \o postfix
       [] x = "pool" -> pool_id
       [] OTHER -> resource[x]]

\* _FileVolume.define_config_from_self: a deep copy of the resource's config
\* with uri, name, pool, allocated and bindings reset
define_config_from_self(resource, pool_id, postfix) ==
  [x \in DOMAIN resource |->
     CASE x = "uri" -> None
       [] x = "name" -> resource.name \o "_" \o postfix
       [] x = "pool" -> pool_id
       [] x = "allocated" -> FALSE
       [] x = "bindings" -> {}
       [] OTHER -> resource[x]]

\* get_resource_class of the pool pool_id: the class of the resources it
\* supports (volumes in the storage pools, ports in the bridge pool)
get_resource_class(pool_id, resource_type) ==
  IF pool_id \in BridgePools
  THEN (IF resource_type = "port" THEN "port" ELSE None)
  ELSE (IF resource_type = "volume" THEN "volume" ELSE None)

\* _ResourcePool.create_resource_object of the pool pool_id: the resource
\* object gets its uuid and goes into the pool's table (field registry)
pool_create_resource_object(s, pool_id, config) ==
  IF get_resource_class(pool_id, config.type) = None
  THEN Raise(s, "TypeError", "'NoneType' object is not callable")
  ELSE [s EXCEPT !.uuid = @ + 1,
                 !.res = Put(@, s.uuid + 1,
                             [x \in DOMAIN config \cup {"registry"} |->
                                IF x = "registry" THEN pool_id ELSE config[x]])]

\* _ResourcePool.create_resource_object_from of the pool pool_id
pool_create_resource_object_from(s, pool_id, resource, postfix) ==
  IF get_resource_class(pool_id, resource.type) = None
  THEN Raise(s, "RuntimeError", "type resource is not supported by pool")
  ELSE pool_create_resource_object(
         s, pool_id, define_config_from_self(resource, pool_id, postfix))

\* _ResourcePool.get_resource_info: resource = self.resources.get(resource_id)
get_resource_info(s, id) ==
  IF id \notin DOMAIN s.res THEN Raise(s, "AttributeError", "NoneType") ELSE s

----------------------------------------------------------------------------
(* Lower-level qemu images (layers) *)

\* _QemuImage._define_config_legacy
define_image_config(image_name) ==
  [key |-> image_name, name |-> image_name, backing |-> None,
   backup |-> None, volume |-> NoVolume]

volume_allocated(s, image) == s.res[image.volume].allocated

layer_access_nodes(res, image) ==
  IF image.volume \in DOMAIN res THEN res[image.volume].bindings ELSE {}

\* _QemuVirImage.image_access_nodes: the nodes of all layer objects
image_access_nodes(img, res) ==
  UNION {layer_access_nodes(res, img.images[i]) : i \in DOMAIN img.images}

\* a layer object whose volume is allocated as soon as it is created
create_object_allocated(s, image_name) ==
  LET t == update_resource(
             update_resource(create_resource_object(s), s.uuid + 1, "bind", {}),
             s.uuid + 1, "allocate", {})
  IN  [t EXCEPT !.img.spec[image_name].volume = s.uuid + 1]

\* _QemuImage.create_object: the volume object is created and bound
create_object(s, image_name) ==
  LET t == update_resource(create_resource_object(s), s.uuid + 1, "bind", {})
  IN  [t EXCEPT !.img.spec[image_name].volume = s.uuid + 1]

\* _QemuVirImage._create_image_object followed by self.images[name] = image
create_image_object(s, image_name) ==
  LET t == create_object(s, image_name)
  IN  [t EXCEPT !.img.images = Set(@, image_name, t.img.spec[image_name])]

\* _QemuImage.destroy_object
destroy_object(s, image) ==
  LET t == update_resource(s, image.volume, "unbind", {})
  IN  IF t.exc # "none" THEN t ELSE destroy_resource_object(t, image.volume)

----------------------------------------------------------------------------
(* The upper-level qemu image *)

RECURSIVE define_topo_chain_config(_, _, _)
define_topo_chain_config(image_chain, i, backing) ==
  IF i > Len(image_chain) THEN << >>
  ELSE <<[define_image_config(image_chain[i]) EXCEPT !.backing = backing]>>
       \o define_topo_chain_config(image_chain, i + 1, image_chain[i])

\* _QemuVirImage._define_config_legacy
define_config(image_name, image_chain) ==
  LET layers == IF image_chain # <<>>
                THEN define_topo_chain_config(image_chain, 1, None)
                ELSE <<define_image_config(image_name)>>
  IN  [uuid |-> 0,
       name |-> image_name,
       owner |-> None,
       tag |-> IF image_chain # <<>> THEN "chain" ELSE "none",
       names |-> IF image_chain # <<>> THEN image_chain ELSE <<image_name>>,
       spec |-> [k \in Range([i \in DOMAIN layers |-> layers[i].key])
                   |-> layers[CHOOSE i \in DOMAIN layers : layers[i].key = k]],
       images |-> << >>]

RECURSIVE create_objects(_, _)
\* _QemuVirImage.create_object: for image_name in self.image_names
create_objects(s, i) ==
  IF i > Len(s.img.names) \/ s.exc # "none" THEN s
  ELSE create_objects(create_image_object(s, s.img.names[i]), i + 1)

\* an add that leaves the topology tag alone
none_kept(tag) == tag

\* "none" in topology: topology["chain"] = topology.pop("none")
none_to_chain(tag) == IF tag = "none" THEN "chain" ELSE tag

\* len(image_names) < 2: topology["none"] = topology.pop("chain")
chain_to_none(tag, names) == IF Len(names) < 2 THEN "none" ELSE tag

\* an add that takes any node set
any_nodes_accepted(node_names, access) == FALSE

\* not set(node_names).issubset(set(self.image_access_nodes))
not_accessible(node_names, access) == ~(node_names \subseteq access)

\* _QemuVirImage.add_image_object
add_image_object(s, target, backing_chain, nodes) ==
  LET img == s.img
      access == image_access_nodes(img, s.res)
      node_names == IF nodes # {} THEN nodes ELSE access
      config == define_image_config(target)
  IN  IF target \in Keys(img.images)
      THEN Raise(s, "ValueError", "already existed")
      ELSE IF not_accessible(node_names, access)
      THEN Raise(s, "ValueError", "should be a subset")
      ELSE IF ~backing_chain
      THEN create_image_object([s EXCEPT !.img.spec = Put(@, target, config)], target)
      ELSE IF img.names = << >>
      THEN Raise(s, "IndexError", "list index out of range")
      ELSE create_image_object(
             [s EXCEPT !.img.names = Append(@, target),
                       !.img.name = target,
                       !.img.tag = none_to_chain(@),
                       !.img.spec = Put(@, target,
                                        [config EXCEPT !.backing = Last(img.names)])],
             target)

\* legality checks that let any layer object of a chain go
remove_rejected_unordered(img, target) ==
  \/ target \notin Keys(img.images)
  \/ Len(img.images) = 1
  \/ target \in Range(img.names) /\ img.tag = "none"

\* the legality checks of remove_image_object, before the layer is popped
remove_rejected(img, target) ==
  \/ target \notin Keys(img.images)
  \/ Len(img.images) = 1
  \/ /\ target \in Range(img.names)
     /\ \/ img.tag = "chain" /\ target # Last(img.names)
        \/ img.tag = "none"

\* image = self.images.pop(target); if image.volume_allocated: raise
pop_and_check(s, target) ==
  LET popped == [s EXCEPT !.img.images = Pop(@, target)]
  IN  IF volume_allocated(s, Get(s.img.images, target))
      THEN Raise(popped, "RuntimeError", "isn't released yet")
      ELSE popped

\* the topology update that ends remove_image_object
remove_from_topology(s, target) ==
  IF target \notin Range(s.img.names) THEN s
  ELSE LET names == RemoveFirst(s.img.names, target)
           t == [s EXCEPT !.img.names = names]
       IN  IF names = << >>
           THEN Raise(t, "IndexError", "list index out of range")
           ELSE [t EXCEPT !.img.name = Last(names),
                          !.img.tag = chain_to_none(@, names)]

\* _QemuVirImage.remove_image_object
remove_image_object(s, target) ==
  IF remove_rejected(s.img, target)
  THEN Raise(s, "ValueError", "cannot be removed")
  ELSE LET p == pop_and_check(s, target)
           d == destroy_object(p, Get(s.img.images, target))
       IN  IF p.exc # "none" THEN p
           ELSE IF d.exc # "none" THEN d
           ELSE remove_from_topology(d, target)

\* _QemuVirImage.destroy_image_object, on d = [s: the call, log: the layers
\* destroyed so far, in order]
destroy_image_object(d, image_name) ==
  IF d.s.exc # "none" THEN d
  ELSE IF image_name \notin Keys(d.s.img.images)
  THEN [d EXCEPT !.s = Raise(@, "KeyError", image_name)]
  ELSE [s |-> destroy_object([d.s EXCEPT !.img.images = Pop(@, image_name)],
                             Get(d.s.img.images, image_name)),
        log |-> Append(d.log, image_name)]

RECURSIVE destroy_listed(_, _, _)
\* for image_name in self.image_names[::-1]: self.destroy_image_object(image_name)
destroy_listed(d, names, i) ==
  IF i < 1 \/ d.s.exc # "none" THEN d
  ELSE destroy_listed(destroy_image_object(d, names[i]), names, i - 1)

\* for image_name in self.images: self.destroy_image_object(image_name)
\* (the OrderedDict is popped while it is iterated: the first key goes, and
\* the iterator raises when a key is left)
destroy_remaining(d) ==
  IF d.s.exc # "none" \/ d.s.img.images = << >> THEN d
  ELSE LET first == destroy_image_object(d, d.s.img.images[1].key)
       IN  IF first.s.exc = "none" /\ first.s.img.images # << >>
           THEN [first EXCEPT !.s = Raise(@, "RuntimeError",
                                          "OrderedDict mutated during iteration")]
           ELSE first

\* _QemuVirImage.destroy_object
destroy_objects(s) ==
  destroy_remaining(destroy_listed([s |-> s, log |-> << >>],
                                   s.img.names, Len(s.img.names)))

\* create and destroy without the check of the target's position
not_top_accepted(img, target) == FALSE

\* target in image_names and target != image_names[-1], in create and destroy
not_top_rejected(img, target) ==
  target \in Range(img.names) /\ target # Last(img.names)

RECURSIVE for_each_layer(_, _, _, _, _)
\* for image_tag in image_tags: self.images[image_tag].create/destroy(arguments)
for_each_layer(s, image_tags, i, cmd, nodes) ==
  IF i > Len(image_tags) \/ s.exc # "none" THEN s
  ELSE IF image_tags[i] \notin Keys(s.img.images)
  THEN Raise(s, "KeyError", image_tags[i])
  ELSE for_each_layer(
         update_resource(s, Get(s.img.images, image_tags[i]).volume, cmd, nodes),
         image_tags, i + 1, cmd, nodes)

\* a create that walks the topology list from the top down
create_top_down(s, target, nodes, result) ==
  LET img == s.img
      image_tags == IF target # None THEN <<target>>
                    ELSE [i \in DOMAIN img.names |-> img.names[Len(img.names) + 1 - i]]
      a == for_each_layer(s, image_tags, 1, "allocate", nodes)
  IN  IF image_access_nodes(img, s.res) = {}
      THEN Raise(s, "IndexError", "list index out of range")
      ELSE IF target \in Range(img.names) /\ target # Last(img.names)
      THEN Raise(s, "ValueError", "Only the top can be created")
      ELSE IF a.exc # "none" THEN a
      ELSE Remote(a, "create", None, target, result)

\* _QemuVirImage.create
create(s, target, nodes, result) ==
  LET img == s.img
      image_tags == IF target # None THEN <<target>> ELSE img.names
      a == for_each_layer(s, image_tags, 1, "allocate", nodes)
  IN  IF image_access_nodes(img, s.res) = {}
      THEN Raise(s, "IndexError", "list index out of range")
      ELSE IF not_top_rejected(img, target)
      THEN Raise(s, "ValueError", "Only the top can be created")
      ELSE IF a.exc # "none" THEN a
      ELSE Remote(a, "create", None, target, result)

\* a destroy that releases the layers of the topology list only
destroy_listed_only(s, target, nodes) ==
  IF not_top_rejected(s.img, target)
  THEN Raise(s, "ValueError", "Only the top can be destroyed")
  ELSE for_each_layer(s, IF target # None THEN <<target>> ELSE s.img.names,
                      1, "release", nodes)

\* _QemuVirImage.destroy
destroy(s, target, nodes) ==
  LET img == s.img
      image_tags == IF target # None THEN <<target>>
                    ELSE [i \in DOMAIN img.images |-> img.images[i].key]
  IN  IF not_top_rejected(img, target)
      THEN Raise(s, "ValueError", "Only the top can be destroyed")
      ELSE for_each_layer(s, image_tags, 1, "release", nodes)

\* the end of qemu_img_rebase, after the remote rebase returned 0
rebase_topology(s, target, backing) ==
  [s EXCEPT !.img.name = target,
            !.img.names = Append(@, target),
            !.img.tag = none_to_chain(@),
            !.img.spec[target].backing = backing,
            !.img.images = Set(@, target, [Get(@, target) EXCEPT !.backing = backing])]

\* a rebase that moves the topology before it asks the remote node
qemu_img_rebase_topology_first(s, target, nodes, created, rebased) ==
  IF s.img.names = << >>
  THEN Raise(s, "IndexError", "list index out of range")
  ELSE LET backing == Last(s.img.names)
           a == add_image_object(s, target, FALSE, nodes)
           c == create(a, target, {}, created)
       IN  IF a.exc # "none" THEN a
           ELSE IF c.exc # "none" THEN c
           ELSE Remote(rebase_topology(c, target, backing),
                       "rebase", backing, target, rebased)

\* _QemuVirImage.qemu_img_rebase
qemu_img_rebase(s, target, nodes, created, rebased) ==
  IF s.img.names = << >>
  THEN Raise(s, "IndexError", "list index out of range")
  ELSE LET backing == Last(s.img.names)
           a == add_image_object(s, target, FALSE, nodes)
           c == create(a, target, {}, created)
           r == Remote(c, "rebase", backing, target, rebased)
       IN  IF a.exc # "none" THEN a
           ELSE IF c.exc # "none" THEN c
           ELSE IF r.exc # "none" THEN r
           ELSE rebase_topology(r, target, backing)

\* a cloned layer that keeps the volume of the layer it was made from
clone_layer_shared(s, image, postfix) ==
  [s EXCEPT !.img.images = Set(@, image.key, image),
            !.img.spec = Put(@, image.key, image)]

\* _QemuImage.create_object_from_self, then bind_volume and allocate_volume
clone_layer(s, image, postfix) ==
  LET made == create_resource_object(s)
      bound == update_resource(made, s.uuid + 1, "bind",
                               layer_access_nodes(s.res, image))
      allocated == update_resource(bound, s.uuid + 1, "allocate", {})
      cloned_image == [image EXCEPT !.name = image.name \o "_" \o postfix,
                                    !.backing = None,
                                    !.backup = None,
                                    !.volume = s.uuid + 1]
  IN  IF bound.exc # "none" THEN bound
      ELSE [allocated EXCEPT
              !.img.images = Set(@, image.key, cloned_image),
              !.img.spec = Put(@, image.key, cloned_image)]

RECURSIVE clone_layers(_, _, _, _)
\* for image_name in self.image_names: of clone; s.img is the clone being built
clone_layers(s, self, i, postfix) ==
  IF i > Len(self.names) \/ s.exc # "none" THEN s
  ELSE IF self.names[i] \notin Keys(self.images)
  THEN Raise(s, "KeyError", self.names[i])
  ELSE clone_layers(clone_layer(s, Get(self.images, self.names[i]), postfix),
                    self, i + 1, postfix)

RECURSIVE clone_rebase_swapped(_, _, _, _)
\* rebase calls with source and target exchanged
clone_rebase_swapped(s, i, failing, out) ==
  IF i > Len(s.img.names) - 1 \/ s.exc # "none" THEN s
  ELSE clone_rebase_swapped(
         Remote(s, "rebase", s.img.names[i + 1], s.img.names[i],
                IF i = failing THEN [r |-> 1, out |-> out] ELSE [r |-> 0, out |-> "done"]),
         i + 1, failing, out)

RECURSIVE clone_rebase_unchecked(_, _, _, _)
\* rebase calls whose status is never looked at
clone_rebase_unchecked(s, i, failing, out) ==
  IF i > Len(s.img.names) - 1 THEN s
  ELSE clone_rebase_unchecked(
         Remote_unchecked(s, "rebase", s.img.names[i], s.img.names[i + 1],
                IF i = failing THEN [r |-> 1, out |-> out] ELSE [r |-> 0, out |-> "done"]),
         i + 1, failing, out)

RECURSIVE clone_rebase(_, _, _, _)
\* for i in range(1, len(obj.image_names)): the remote rebase calls of clone
clone_rebase(s, i, failing, out) ==
  IF i > Len(s.img.names) - 1 \/ s.exc # "none" THEN s
  ELSE clone_rebase(
         Remote(s, "rebase", s.img.names[i], s.img.names[i + 1],
                IF i = failing THEN [r |-> 1, out |-> out] ELSE [r |-> 0, out |-> "done"]),
         i + 1, failing, out)

\* _QemuVirImage.clone
clone(s, postfix, failing, out) ==
  LET self == s.img
      config == [uuid |-> 0,
                 name |-> self.name \o "_" \o postfix,
                 owner |-> self.owner,
                 tag |-> self.tag,
                 names |-> self.names,
                 spec |-> << >>,
                 images |-> << >>]
      layers == clone_layers([s EXCEPT !.img = config], self, 1, postfix)
      obj == [layers EXCEPT !.uuid = @ + 1, !.img.uuid = layers.uuid + 1]
  IN  IF layers.exc # "none" THEN layers
      ELSE IF obj.img.tag # "chain" THEN obj
      ELSE IF image_access_nodes(obj.img, obj.res) = {}
      THEN Raise(obj, "IndexError", "list index out of range")
      ELSE clone_rebase(obj, 1, failing, out)

\* resmgr.pools with the meta of each pool, in the order they are iterated
Pools ==
  << [id |-> "pool2", type |-> "nfs", nodes |-> PoolNodes],
     [id |-> "pool1", type |-> "filesystem", nodes |-> PoolNodes] >>

RECURSIVE backup_pool(_, _, _)
\* pool_id = None; for pool_id in resmgr.pools: if filesystem and node_name
\* in its access nodes: break
backup_pool(node_name, i, pool_id) ==
  IF i > Len(Pools) THEN pool_id
  ELSE IF Pools[i].type = "filesystem" /\ node_name \in Pools[i].nodes
  THEN Pools[i].id
  ELSE backup_pool(node_name, i + 1, Pools[i].id)

\* the body of the loop of backup: image.create_object_from_self(pool_id),
\* bind_volume, allocate_volume, image_spec["backup"], self.images[...]
backup_layer(s, image_name, node_name, pool_id, postfix) ==
  IF image_name \notin Keys(s.img.images) THEN Raise(s, "KeyError", image_name)
  ELSE
  LET image == Get(s.img.images, image_name)
      image_pool_id == IF pool_id = None THEN s.res[image.volume].pool ELSE pool_id
      made == [s EXCEPT !.uuid = @ + 1,
                        !.res = Put(@, s.uuid + 1,
                                    define_config_from_self(s.res[image.volume],
                                                            image_pool_id, postfix))]
      bound == update_resource(made, s.uuid + 1, "bind", {node_name})
      allocated == update_resource(bound, s.uuid + 1, "allocate", {})
      backup_name == image.name \o "_" \o postfix
      backup_image == [image EXCEPT !.key = backup_name, !.name = backup_name,
                                    !.backing = None, !.backup = None,
                                    !.volume = s.uuid + 1]
  IN  IF bound.exc # "none" THEN bound
      ELSE [allocated EXCEPT
              !.img.images = Set(Set(@, image_name,
                                     [image EXCEPT !.backup = backup_name]),
                                 backup_name, backup_image),
              !.img.spec[image_name].backup = backup_name]

RECURSIVE backup_layers(_, _, _, _, _, _)
\* for image_name in self.image_names: of backup
backup_layers(s, names, i, node_name, pool_id, postfix) ==
  IF i > Len(names) \/ s.exc # "none" THEN s
  ELSE backup_layers(backup_layer(s, names[i], node_name, pool_id, postfix),
                     names, i + 1, node_name, pool_id, postfix)

\* _QemuVirImage.backup; node_name is self.image_access_nodes[0]
backup(s, node_name, postfix, result) ==
  IF image_access_nodes(s.img, s.res) = {}
  THEN Raise(s, "IndexError", "list index out of range")
  ELSE LET b == backup_layers(s, s.img.names, 1, node_name,
                              backup_pool(node_name, 1, None), postfix)
       IN  IF b.exc # "none" THEN b
           ELSE Remote(b, "backup", None, None, result)

\* _QemuVirImage.qemu_img_commit; ret is what the handler returns
qemu_img_commit(s, result) ==
  IF image_access_nodes(s.img, s.res) = {}
  THEN Raise(s, "IndexError", "list index out of range") @@ [ret |-> None]
  ELSE Remote(s, "commit", None, None, result) @@ [ret |-> None]

\* _QemuVirImage.qemu_img_snapshot
qemu_img_snapshot(s, result) ==
  IF image_access_nodes(s.img, s.res) = {}
  THEN Raise(s, "IndexError", "list index out of range") @@ [ret |-> None]
  ELSE Remote(s, "snapshot", None, None, result) @@ [ret |-> None]

\* an info that returns nothing
qemu_img_info_silent(s, result) ==
  IF image_access_nodes(s.img, s.res) = {}
  THEN Raise(s, "IndexError", "list index out of range") @@ [ret |-> None]
  ELSE Remote(s, "info", None, None, result) @@ [ret |-> None]

\* _QemuVirImage.qemu_img_info: return o["out"]
qemu_img_info(s, result) ==
  IF image_access_nodes(s.img, s.res) = {}
  THEN Raise(s, "IndexError", "list index out of range") @@ [ret |-> None]
  ELSE Remote(s, "info", None, None, result)
         @@ [ret |-> IF result.r # 0 THEN None ELSE result.out]

\* _QemuVirImage.qemu_img_check: return o["out"]
qemu_img_check(s, result) ==
  IF image_access_nodes(s.img, s.res) = {}
  THEN Raise(s, "IndexError", "list index out of range") @@ [ret |-> None]
  ELSE Remote(s, "check", None, None, result)
         @@ [ret |-> IF result.r # 0 THEN None ELSE result.out]

\* self._handlers of _QemuVirImage, for the commands passed to the remote agent
get_image_handler(cmd, s, result) ==
  CASE cmd = "commit" -> qemu_img_commit(s, result)
    [] cmd = "snapshot" -> qemu_img_snapshot(s, result)
    [] cmd = "info" -> qemu_img_info(s, result)
    [] cmd = "check" -> qemu_img_check(s, result)

\* _VirImage.config: the loop over _EDITABLE_OPTIONS looks its first option up
\* in arguemnts, a name that is not defined
config_handler(s, arguments) ==
  Raise(s, "NameError", "name 'arguemnts' is not defined")

----------------------------------------------------------------------------
(* Configuration documents: a value is a dict, a str, a list or None *)

Dict(items) == [kind |-> "dict", items |-> items]

Str(value) == [kind |-> "str", value |-> value]

List(value) == [kind |-> "list", value |-> value]

NoneValue == [kind |-> "none"]

Value(v) == IF v = None THEN NoneValue ELSE Str(v)

\* item in str, for the segments and the strings of the model
IsSubstring(item, str) == item = str \/ <<item, str>> \in {<<"b", "base">>}

\* the config of a layer: {"meta": {"name"}, "spec": {"backing", "backup", "volume"}}
layer_config(image) ==
  Dict([meta |-> Dict([name |-> Str(image.name)]),
        spec |-> Dict([backing |-> Value(image.backing),
                       backup |-> Value(image.backup),
                       volume |-> Str(ToString(image.volume))])])

\* _VirImage.get_image_info(verbose=False): copy.deepcopy(self.image_config)
image_info(img) ==
  Dict([meta |-> Dict([uuid |-> Str(ToString(img.uuid)),
                       name |-> Str(img.name),
                       type |-> Str("qemu"),
                       owner |-> Value(img.owner),
                       topology |-> Dict((img.tag :> List(img.names)))]),
        spec |-> Dict([images |-> Dict([k \in DOMAIN img.spec |->
                                          layer_config(img.spec[k])])])])

RECURSIVE lookup(_, _, _)
\* for item in request.split("."): if item in config: config = config[item]
\* else: raise ValueError(request); else: config = {item: config}
lookup(config, request, i) ==
  IF i > Len(request)
  THEN [exc |-> "none", msg |-> "", ret |-> Dict((Last(request) :> config))]
  ELSE CASE config.kind = "dict" ->
              IF request[i] \in DOMAIN config.items
              THEN lookup(config.items[request[i]], request, i + 1)
              ELSE [exc |-> "ValueError", msg |-> "request", ret |-> NoneValue]
         [] config.kind = "str" ->
              IF IsSubstring(request[i], config.value)
              THEN [exc |-> "TypeError", msg |-> "string indices must be integers",
                    ret |-> NoneValue]
              ELSE [exc |-> "ValueError", msg |-> "request", ret |-> NoneValue]
         [] config.kind = "list" ->
              IF request[i] \in Range(config.value)
              THEN [exc |-> "TypeError", msg |-> "list indices must be integers",
                    ret |-> NoneValue]
              ELSE [exc |-> "ValueError", msg |-> "request", ret |-> NoneValue]
         [] config.kind = "none" ->
              [exc |-> "TypeError", msg |-> "argument of type 'NoneType' is not iterable",
               ret |-> NoneValue]

\* _VTImageManager.get_image_info(image_id, request); request << >> is None
get_image_info(img, request) ==
  IF request = << >>
  THEN [exc |-> "none", msg |-> "", ret |-> image_info(img)]
  ELSE lookup(image_info(img), request, 1)

----------------------------------------------------------------------------
(* What a call leaves behind *)

Done(op, id, target, backing_chain, s) ==
  [op |-> op, id |-> id, target |-> target, backing_chain |-> backing_chain,
   exc |-> s.exc, msg |-> s.msg, calls |-> s.calls]

Commit(id, s) ==
  /\ vt_imgr' = Put(vt_imgr, id, s.img)
  /\ resources' = s.res
  /\ uuid' = s.uuid
  /\ UNCHANGED <<pools, cluster, rebasing, vt_netportmgr>>

----------------------------------------------------------------------------
(* The image manager's entry points *)

\* _VTImageManager.create_image_object(define_image_config(image_name, params))
CreateImageObject(p) ==
  /\ Cardinality(DOMAIN vt_imgr) < MaxDefined
  /\ uuid + 1 + Len(define_config(p[1], p[2]).names) <= MaxUuid
  /\ LET config == [define_config(p[1], p[2]) EXCEPT !.uuid = uuid + 1]
         s == create_objects(Call(config, resources, uuid + 1), 1)
     IN  /\ Commit(uuid + 1, s)
         /\ last' = Done("create_image_object", uuid + 1, None, FALSE, s)

\* update_image(image_id, {"add": {target, target_params, backing_chain, nodes}})
AddImageObject(id, target, backing_chain, nodes) ==
  /\ id \in DOMAIN vt_imgr
  /\ uuid + 1 <= MaxUuid
  /\ Len(vt_imgr[id].names) < MaxChain
  /\ LET s == add_image_object(Call(vt_imgr[id], resources, uuid),
                               target, backing_chain, nodes)
     IN  /\ Commit(id, s)
         /\ last' = Done("add", id, target, backing_chain, s)

\* update_image(image_id, {"remove": {target}})
RemoveImageObject(id, target) ==
  /\ id \in DOMAIN vt_imgr
  /\ LET s == remove_image_object(Call(vt_imgr[id], resources, uuid), target)
     IN  /\ Commit(id, s)
         /\ last' = Done("remove", id, target, FALSE, s)

\* update_image(image_id, {"create": {target}})
Create(id, target, result) ==
  /\ id \in DOMAIN vt_imgr
  /\ LET s == create(Call(vt_imgr[id], resources, uuid), target, {}, result)
     IN  /\ Commit(id, s)
         /\ last' = Done("create", id, target, FALSE, s) @@ [updates |-> s.updates]

\* update_image(image_id, {"destroy": {target}})
Destroy(id, target) ==
  /\ id \in DOMAIN vt_imgr
  /\ LET s == destroy(Call(vt_imgr[id], resources, uuid), target, {})
     IN  /\ Commit(id, s)
         /\ last' = Done("destroy", id, target, FALSE, s)

\* update_image(image_id, {"rebase": {target, target_params, nodes}})
Rebase(id, target, nodes, created, rebased) ==
  /\ id \in DOMAIN vt_imgr
  /\ uuid + 1 <= MaxUuid
  /\ Len(vt_imgr[id].names) < MaxChain
  /\ LET s == qemu_img_rebase(Call(vt_imgr[id], resources, uuid),
                              target, nodes, created, rebased)
     IN  /\ Commit(id, s)
         /\ last' = Done("rebase", id, target, FALSE, s)

\* _VTImageManager.clone_image: the clone is registered when clone() returns
CloneImage(id, postfix, failing, out) ==
  /\ id \in DOMAIN vt_imgr
  /\ Cardinality(DOMAIN vt_imgr) < MaxImages
  /\ uuid <= MaxUuid
  /\ LET s == clone(Call(vt_imgr[id], resources, uuid), postfix, failing, out)
     IN  /\ vt_imgr' = IF s.exc = "none" THEN Put(vt_imgr, s.img.uuid, s.img)
                       ELSE vt_imgr
         /\ resources' = s.res
         /\ uuid' = s.uuid
         /\ last' = Done("clone", id, None, FALSE, s)
         /\ UNCHANGED <<pools, cluster, rebasing, vt_netportmgr>>

\* _VTImageManager.destroy_image_object: the image is popped from the registry,
\* then destroyed; the call leaves the layers it destroyed and those it left
DestroyImageObject(id) ==
  /\ id \in DOMAIN vt_imgr
  /\ LET d == destroy_objects(Call(vt_imgr[id], resources, uuid))
     IN  /\ vt_imgr' = [x \in DOMAIN vt_imgr \ {id} |-> vt_imgr[x]]
         /\ resources' = d.s.res
         /\ UNCHANGED <<uuid, pools, cluster, rebasing, vt_netportmgr>>
         /\ last' = [op |-> "destroy_image_object", id |-> id, target |-> None,
                     backing_chain |-> FALSE, exc |-> d.s.exc, msg |-> d.s.msg,
                     calls |-> d.s.calls, destroyed |-> d.log,
                     images |-> d.s.img.images]

\* the names generate_random_string gives the backups are new to the image
FreshPostfix(img, postfix) ==
  \A i \in DOMAIN img.images :
    img.images[i].name \o "_" \o postfix \notin Keys(img.images)

\* _VTImageManager.backup_image; list(node_set)[0] is any of the access nodes
BackupImage(id, node_name, postfix, result) ==
  /\ id \in DOMAIN vt_imgr
  /\ uuid + Len(vt_imgr[id].names) <= MaxBackupUuid
  /\ FreshPostfix(vt_imgr[id], postfix)
  /\ image_access_nodes(vt_imgr[id], resources) # {}
       => node_name \in image_access_nodes(vt_imgr[id], resources)
  /\ LET s == backup(Call(vt_imgr[id], resources, uuid), node_name, postfix, result)
     IN  /\ Commit(id, s)
         /\ last' = Done("backup", id, None, FALSE, s)

\* update_image(image_id, {"config": {"name": name, "owner": owner}})
Config(id, name, owner) ==
  /\ id \in DOMAIN vt_imgr
  /\ LET s == config_handler(Call(vt_imgr[id], resources, uuid),
                             [name |-> name, owner |-> owner])
     IN  /\ Commit(id, s)
         /\ last' = [op |-> "config", id |-> id, target |-> None,
                     backing_chain |-> FALSE, exc |-> s.exc, msg |-> s.msg,
                     calls |-> s.calls, name |-> name, owner |-> owner]

\* update_image(image_id, {cmd: {}}) for commit, snapshot, info and check
PassThrough(id, cmd, result) ==
  /\ id \in DOMAIN vt_imgr
  /\ LET s == get_image_handler(cmd, Call(vt_imgr[id], resources, uuid), result)
     IN  /\ Commit(id, s)
         /\ last' = Done(cmd, id, None, FALSE, s) @@ [ret |-> s.ret]

\* vt_imgr.get_image_info(image_id, request)
GetImageInfo(id, request) ==
  /\ id \in DOMAIN vt_imgr
  /\ UNCHANGED <<vt_imgr, resources, uuid, pools, cluster, rebasing, vt_netportmgr>>
  /\ LET got == get_image_info(vt_imgr[id], request)
     IN  last' = [op |-> "get_image_info", id |-> id, target |-> None,
                  backing_chain |-> FALSE, exc |-> got.exc, msg |-> got.msg,
                  calls |-> << >>, request |-> request, ret |-> got.ret]

RECURSIVE query_from(_, _, _, _)
\* the loop of query_image over self._images, in the order of registration
query_from(images, image_id, image_name, vm_name) ==
  IF image_id > MaxUuid THEN None
  ELSE IF /\ image_id \in DOMAIN images
          /\ image_name = images[image_id].name
          /\ (vm_name # None => vm_name = images[image_id].owner)
  THEN image_id
  ELSE query_from(images, image_id + 1, image_name, vm_name)

\* _VTImageManager.query_image
query_image(images, image_name, vm_name) ==
  query_from(images, 1, image_name, vm_name)

\* the table self.resources of the pool pool_id
PoolResources(pool_id) ==
  [x \in {y \in DOMAIN resources : "registry" \in DOMAIN resources[y]
                                   /\ resources[y].registry = pool_id}
     |-> resources[x]]

\* a call on the pool pool_id ends: its table is as the call left it
PoolCommit(pool_id, s) ==
  /\ resources' = [x \in (DOMAIN resources \ DOMAIN PoolResources(pool_id))
                           \cup DOMAIN s.res
                     |-> IF x \in DOMAIN s.res THEN s.res[x] ELSE resources[x]]
  /\ uuid' = s.uuid
  /\ UNCHANGED <<vt_imgr, pools, cluster, rebasing, vt_netportmgr>>

\* what a call on a pool leaves behind; bindings are those the resource had
\* when the call was made
PoolDone(op, pool_id, id, cmd, nodes, s) ==
  [op |-> op, pool |-> pool_id, id |-> id, cmd |-> cmd, nodes |-> nodes,
   found |-> id \in DOMAIN PoolResources(pool_id),
   bindings |-> IF id \in DOMAIN PoolResources(pool_id)
                THEN PoolResources(pool_id)[id].bindings ELSE {},
   exc |-> s.exc, msg |-> s.msg, calls |-> s.calls]

\* pool.create_resource_object(pool.define_resource_config(name, type, params))
CreateResourceObject(pool_id, resource_name, image_name) ==
  /\ uuid + 1 <= MaxPoolUuid
  /\ Cardinality(DOMAIN resources) < MaxResources
  /\ LET s == pool_create_resource_object(
                 Call(<< >>, PoolResources(pool_id), uuid), pool_id,
                 define_resource_config(pool_id, resource_name, image_name))
     IN  /\ PoolCommit(pool_id, s)
         /\ last' = PoolDone("create_resource_object", pool_id, s.uuid, None, {}, s)

\* pool.create_resource_object_from(resource): resource is an object of any pool
\* (the name generate_random_string gives the new resource is used by no other)
CreateResourceObjectFrom(pool_id, id, postfix) ==
  /\ id \in DOMAIN resources
  /\ uuid + 1 <= MaxPoolUuid
  /\ Cardinality(DOMAIN resources) < MaxResources
  /\ \A v \in DOMAIN resources :
       resources[v].name # resources[id].name \o "_" \o postfix
  /\ LET s == pool_create_resource_object_from(
                 Call(<< >>, PoolResources(pool_id), uuid), pool_id, resources[id],
                 postfix)
     IN  /\ PoolCommit(pool_id, s)
         /\ last' = PoolDone("create_resource_object_from", pool_id, id, None, {}, s)

\* pool.update_resource(resource_id, {cmd: {"nodes": nodes}})
UpdateResource(pool_id, id, cmd, nodes) ==
  LET s == update_resource(Call(<< >>, PoolResources(pool_id), uuid), id, cmd, nodes)
  IN  /\ PoolCommit(pool_id, s)
      /\ last' = PoolDone("update_resource", pool_id, id, cmd, nodes, s)

\* pool.destroy_resource_object(resource_id)
DestroyResourceObject(pool_id, id) ==
  LET s == destroy_resource_object(Call(<< >>, PoolResources(pool_id), uuid), id)
  IN  /\ PoolCommit(pool_id, s)
      /\ last' = PoolDone("destroy_resource_object", pool_id, id, None, {}, s)

\* pool.get_resource_info(resource_id)
GetResourceInfo(pool_id, id) ==
  LET s == get_resource_info(Call(<< >>, PoolResources(pool_id), uuid), id)
  IN  /\ PoolCommit(pool_id, s)
      /\ last' = PoolDone("get_resource_info", pool_id, id, None, {}, s)

\* the threads that call rebase
Threads == {"t1", "t2"}

\* a thread that is not in a rebase call
Idle ==
  [pc |-> "idle", id |-> 0, target |-> None, backing |-> None,
   exc |-> "none", msg |-> ""]

Init ==
  /\ vt_imgr = << >>
  /\ resources = << >>
  /\ uuid = 0
  /\ last = Done("init", 0, None, FALSE, Call(<< >>, << >>, 0))
  /\ pools = << >>
  /\ cluster = [nodes |-> <<"n1", "n2">>, partition |-> ClusterNodes]
  /\ rebasing = [t \in Threads |-> Idle]
  /\ vt_netportmgr = [res_config |-> << >>, resource_id |-> << >>]

Targets == LayerNames \cup {None}

NodeArgs == {{}, {"n1"}, {"n2"}}

\* the remote results of rebase: the rebase call is made when create returned 0
RebaseResults ==
  {rr \in RemoteResults \X RemoteResults : rr[1].r # 0 => rr[2].r = 0}

Next ==
  \/ \E p \in Params : CreateImageObject(p)
  \/ \E id \in DOMAIN vt_imgr, target \in LayerNames, b \in BOOLEAN, nodes \in NodeArgs :
        AddImageObject(id, target, b, nodes)
  \/ \E id \in DOMAIN vt_imgr, target \in LayerNames : RemoveImageObject(id, target)
  \/ \E id \in DOMAIN vt_imgr, target \in Targets, result \in RemoteResults :
        Create(id, target, result)
  \/ \E id \in DOMAIN vt_imgr, target \in Targets : Destroy(id, target)
  \/ \E id \in DOMAIN vt_imgr, target \in LayerNames, nodes \in NodeArgs,
         rr \in RebaseResults : Rebase(id, target, nodes, rr[1], rr[2])

\* images that are defined, extended, shrunk and cloned
NextClone ==
  \/ \E p \in Params : CreateImageObject(p)
  \/ \E id \in DOMAIN vt_imgr, target \in LayerNames, b \in BOOLEAN, nodes \in NodeArgs :
        AddImageObject(id, target, b, nodes)
  \/ \E id \in DOMAIN vt_imgr, target \in LayerNames : RemoveImageObject(id, target)
  \/ \E id \in DOMAIN vt_imgr, postfix \in Postfixes, failing \in 0..(MaxChain - 1),
         out \in Outs : CloneImage(id, postfix, failing, out)

\* images that are defined, extended, shrunk and destroyed
NextDestroy ==
  \/ \E p \in Params : CreateImageObject(p)
  \/ \E id \in DOMAIN vt_imgr, target \in LayerNames, b \in BOOLEAN, nodes \in NodeArgs :
        AddImageObject(id, target, b, nodes)
  \/ \E id \in DOMAIN vt_imgr, target \in LayerNames : RemoveImageObject(id, target)
  \/ \E id \in DOMAIN vt_imgr : DestroyImageObject(id)

\* images that are defined, extended, shrunk, created and backed up
NextBackup ==
  \/ \E p \in Params : CreateImageObject(p)
  \/ \E id \in DOMAIN vt_imgr, target \in LayerNames, b \in BOOLEAN, nodes \in NodeArgs :
        AddImageObject(id, target, b, nodes)
  \/ \E id \in DOMAIN vt_imgr, target \in LayerNames : RemoveImageObject(id, target)
  \/ \E id \in DOMAIN vt_imgr, target \in Targets, result \in RemoteResults :
        Create(id, target, result)
  \/ \E id \in DOMAIN vt_imgr, node_name \in ClusterNodes, postfix \in BackupPostfixes,
         result \in RemoteResults : BackupImage(id, node_name, postfix, result)

PassThroughOps == {"commit", "snapshot", "info", "check"}

ImageNames == {"sn", "img2"}

Owners == {"vm1"}

\* images that are defined, extended, shrunk and created, and the handlers
\* of update_image that leave the layers alone
NextHandlers ==
  \/ \E p \in Params : CreateImageObject(p)
  \/ \E id \in DOMAIN vt_imgr, target \in LayerNames, b \in BOOLEAN, nodes \in NodeArgs :
        AddImageObject(id, target, b, nodes)
  \/ \E id \in DOMAIN vt_imgr, target \in LayerNames : RemoveImageObject(id, target)
  \/ \E id \in DOMAIN vt_imgr, target \in Targets, result \in RemoteResults :
        Create(id, target, result)
  \/ \E id \in DOMAIN vt_imgr, name \in ImageNames, owner \in Owners :
        Config(id, name, owner)
  \/ \E id \in DOMAIN vt_imgr, cmd \in PassThroughOps, result \in RemoteResults :
        PassThrough(id, cmd, result)

\* the ids a caller may pass: those of registered objects and others
Ids == 1..MaxPoolUuid

\* the entry points of the resource pools
NextPool ==
  \/ \E pool_id \in PoolIds, resource_name \in ResourceNames :
        CreateResourceObject(pool_id, resource_name, resource_name)
  \/ \E pool_id \in PoolIds, id \in Ids, postfix \in Postfixes :
        CreateResourceObjectFrom(pool_id, id, postfix)
  \/ \E pool_id \in PoolIds, id \in Ids, cmd \in Commands, nodes \in NodeArgs :
        UpdateResource(pool_id, id, cmd, nodes)
  \/ \E pool_id \in PoolIds, id \in Ids : DestroyResourceObject(pool_id, id)
  \/ \E pool_id \in PoolIds, id \in Ids : GetResourceInfo(pool_id, id)

\* resources with and without a uri that are made, updated and made from one
\* another, in the storage pools and in a pool of another type
NextFrom ==
  \/ \E pool_id \in PoolIds, resource_name \in ResourceNames, image_name \in ImagePaths :
        CreateResourceObject(pool_id, resource_name, image_name)
  \/ \E pool_id \in PoolIds \cup BridgePools, id \in Ids, postfix \in Postfixes :
        CreateResourceObjectFrom(pool_id, id, postfix)
  \/ \E pool_id \in PoolIds, id \in Ids, cmd \in Commands, nodes \in NodeArgs :
        UpdateResource(pool_id, id, cmd, nodes)

\* request.split("."): paths that exist, paths with a segment no mapping
\* has, and paths that go on below a string, None or a list
Requests ==
  { << >>,
    <<"meta">>, <<"meta", "name">>, <<"meta", "owner">>,
    <<"meta", "topology">>, <<"meta", "topology", "chain">>,
    <<"spec", "images">>, <<"spec", "images", "sn", "spec", "volume">>,
    <<"spec", "images", "sn", "spec", "backing">>,
    <<"mta">>, <<"meta", "x">>, <<"spec", "images", "top">>,
    <<"meta", "name", "x">>, <<"meta", "name", "b">>,
    <<"meta", "owner", "x">>,
    <<"meta", "topology", "none", "x">>, <<"meta", "topology", "none", "base">> }

\* images that are defined, extended and queried
NextInfo ==
  \/ \E p \in Params : CreateImageObject(p)
  \/ \E id \in DOMAIN vt_imgr, target \in LayerNames, b \in BOOLEAN, nodes \in NodeArgs :
        AddImageObject(id, target, b, nodes)
  \/ \E id \in DOMAIN vt_imgr, request \in Requests : GetImageInfo(id, request)

Spec == Init /\ [][Next]_vars

SpecInfo == Init /\ [][NextInfo]_vars

SpecFrom == Init /\ [][NextFrom]_vars

SpecPool == Init /\ [][NextPool]_vars

SpecDestroy == Init /\ [][NextDestroy]_vars

SpecClone == Init /\ [][NextClone]_vars

SpecBackup == Init /\ [][NextBackup]_vars

SpecHandlers == Init /\ [][NextHandlers]_vars

----------------------------------------------------------------------------
(* Topology and layer objects *)

\* the layer's volume is marked allocated
Allocated(res, image) == image.volume \in DOMAIN res /\ res[image.volume].allocated

TopologyOps == {"add", "remove", "rebase"}

C2_BackingIsPredecessor ==
  \A id \in DOMAIN vt_imgr :
    LET img == vt_imgr[id]
    IN  \A i \in 2..Len(img.names) :
          /\ img.names[i] \in DOMAIN img.spec
          /\ img.spec[img.names[i]].backing = img.names[i - 1]

\* C3: in every reachable state of every image, the image's name is the last
\* element of its topology list.
C3_NameIsTop ==
  \A id \in DOMAIN vt_imgr :
    /\ vt_imgr[id].names # << >>
    /\ vt_imgr[id].name = Last(vt_imgr[id].names)

----------------------------------------------------------------------------
(* create() and the remote agent *)

\* the last call was a create() whose remote create call returned non-zero
CreateFailedRemotely ==
  /\ last.op = "create"
  /\ last.calls # << >>
  /\ Last(last.calls).cmd = "create"
  /\ Last(last.calls).r # 0

\* C4 as stated: when the remote create call returns non-zero with text T,
\* create() raises an error carrying T and no layer of the image is marked
\* allocated afterwards.
C4_RemoteFailureLeavesNothingAllocated ==
  CreateFailedRemotely =>
    /\ last.exc = "Exception" /\ last.msg = Last(last.calls).out
    /\ \A i \in DOMAIN vt_imgr[last.id].images :
         ~Allocated(resources, vt_imgr[last.id].images[i])

\* C4 amended: when the remote create call returns non-zero with text T,
\* create() raises an error carrying exactly T and every layer it allocated
\* before the call (the target, or every layer of the list) stays allocated.
C4_RemoteFailureKeepsAllocation ==
  CreateFailedRemotely =>
    /\ last.exc = "Exception" /\ last.msg = Last(last.calls).out
    /\ \A k \in (IF last.target # None THEN {last.target}
                 ELSE Range(vt_imgr[last.id].names)) :
         /\ k \in Keys(vt_imgr[last.id].images)
         /\ Allocated(resources, Get(vt_imgr[last.id].images, k))

\* create() of a two-layer chain failed on the remote node: both are allocated
C4_Witness ==
  /\ CreateFailedRemotely
  /\ last.exc = "Exception" /\ last.msg \in Outs
  /\ last.target = None
  /\ Len(vt_imgr[last.id].names) = 2
  /\ \A i \in DOMAIN vt_imgr[last.id].images :
       Allocated(resources, vt_imgr[last.id].images[i])

----------------------------------------------------------------------------
(* removeImageObject *)

\* the image a step's call runs on, before and after the step
Before == vt_imgr[last'.id]

After == vt_imgr'[last'.id]

\* C5: removing an otherwise removable target whose volume is still allocated
\* is rejected and the image still holds the layer: layer objects, topology
\* list and name are as before the call.
C5_AllocatedRemoveKeepsLayer ==
  [][/\ last'.op = "remove"
     /\ ~remove_rejected(Before, last'.target)
     /\ Allocated(resources, Get(Before.images, last'.target))
     => /\ last'.exc # "none"
        /\ After.images = Before.images
        /\ After.names = Before.names
        /\ After.tag = Before.tag
        /\ After.name = Before.name]_vars

\* C6 as stated: removing any layer held by the image that is not the top of
\* a chain of two or more layers raises an error and removes nothing.
C6_AnyNonTopLayerRejected ==
  [][/\ last'.op = "remove"
     /\ Len(Before.names) >= 2
     /\ last'.target \in Keys(Before.images)
     /\ last'.target # Last(Before.names)
     => /\ last'.exc # "none"
        /\ vt_imgr' = vt_imgr
        /\ resources' = resources]_vars

\* C6 amended: removing a layer of the topology list that is not its last
\* element, on a list of two or more names, raises an error and removes nothing.
C6_ListedNonTopLayerRejected ==
  [][/\ last'.op = "remove"
     /\ Len(Before.names) >= 2
     /\ last'.target \in Range(Before.names)
     /\ last'.target # Last(Before.names)
     => /\ last'.exc = "ValueError"
        /\ vt_imgr' = vt_imgr
        /\ resources' = resources]_vars

\* the base of a two-layer chain, held by the image, was named and rejected
C6_Witness ==
  /\ last.op = "remove" /\ last.exc = "ValueError"
  /\ Len(vt_imgr[last.id].names) = 2
  /\ Len(vt_imgr[last.id].images) = 2
  /\ last.target = vt_imgr[last.id].names[1]
  /\ last.target # vt_imgr[last.id].names[2]
  /\ last.target \in Keys(vt_imgr[last.id].images)

----------------------------------------------------------------------------
(* create and destroy with a target *)

\* C7 as stated: create and destroy with a named target that is not the top
\* of the chain raise before any volume is allocated or released and before
\* any remote call.
C7_AnyNonTopTargetRejected ==
  [][/\ last'.op \in {"create", "destroy"}
     /\ last'.target # None
     /\ Before.names # << >>
     /\ last'.target # Last(Before.names)
     => /\ last'.exc # "none"
        /\ resources' = resources
        /\ last'.calls = << >>]_vars

\* C7 amended: create and destroy with a named target that is on the topology
\* list and is not its last element raise before any volume is allocated or
\* released and before any remote call.
C7_ListedNonTopTargetRejected ==
  [][/\ last'.op \in {"create", "destroy"}
     /\ last'.target \in Range(Before.names)
     /\ last'.target # Last(Before.names)
     => /\ last'.exc # "none"
        /\ resources' = resources
        /\ vt_imgr' = vt_imgr
        /\ last'.calls = << >>]_vars

\* destroy named the allocated base of a two-layer chain and was rejected
C7_Witness ==
  /\ last.op = "destroy" /\ last.exc = "ValueError"
  /\ Len(vt_imgr[last.id].names) = 2
  /\ last.target = vt_imgr[last.id].names[1]
  /\ last.target # vt_imgr[last.id].names[2]
  /\ last.target \in Keys(vt_imgr[last.id].images)
  /\ Allocated(resources, Get(vt_imgr[last.id].images, last.target))

----------------------------------------------------------------------------
(* Growing and shrinking the chain *)

\* C8: a successful addImageObject(target, backingChain=true) on an image whose
\* top is T sets target's backing to T, appends target to the topology list,
\* names the image target and tags it chain; the layers already in the list
\* keep their order and their backing fields.
C8_AddOnTopKeepsTheChain ==
  [][/\ last'.op = "add" /\ last'.backing_chain /\ last'.exc = "none"
     => /\ After.spec[last'.target].backing = Last(Before.names)
        /\ After.names = Append(Before.names, last'.target)
        /\ After.name = last'.target
        /\ After.tag = "chain"
        /\ \A i \in DOMAIN Before.names :
             After.spec[Before.names[i]].backing
               = Before.spec[Before.names[i]].backing]_vars

\* C9: removing the top of a chain of two or more layers whose volume is not
\* allocated succeeds: the layer object and its resource are destroyed, the
\* topology list loses its last element, the image is named after the new last
\* element and the tag is none exactly when one layer remains in the list.
C9_RemoveTopShrinksTheChain ==
  [][/\ last'.op = "remove"
     /\ Before.tag = "chain" /\ Len(Before.names) >= 2
     /\ last'.target = Last(Before.names)
     /\ last'.target \in Keys(Before.images)
     /\ ~Allocated(resources, Get(Before.images, last'.target))
     => /\ last'.exc = "none"
        /\ last'.target \notin Keys(After.images)
        /\ Get(Before.images, last'.target).volume \notin DOMAIN resources'
        /\ After.names = SubSeq(Before.names, 1, Len(Before.names) - 1)
        /\ After.name = Last(After.names)
        /\ After.tag = "none" <=> Len(After.names) = 1]_vars

\* C10: a successful rebase(target) ends where a successful
\* addImageObject(target, backingChain=true) from the same state ends:
\* list = old list + [target] with target appearing once, tag chain,
\* name = target, target's backing = old top.
C10_RebaseEndsAsAddOnTop ==
  [][/\ last'.op = "rebase" /\ last'.exc = "none"
     => LET added == add_image_object(Call(Before, resources, uuid),
                                      last'.target, TRUE, {})
        IN  /\ added.exc = "none"
            /\ After.names = added.img.names
            /\ After.tag = added.img.tag
            /\ After.name = added.img.name
            /\ After.spec[last'.target].backing
                 = added.img.spec[last'.target].backing
            /\ After.names = Append(Before.names, last'.target)
            /\ Cardinality({i \in DOMAIN After.names :
                              After.names[i] = last'.target}) = 1
            /\ After.tag = "chain"
            /\ After.name = last'.target
            /\ After.spec[last'.target].backing = Last(Before.names)]_vars

----------------------------------------------------------------------------
(* Destroying an image *)

Reverse(s) == [i \in DOMAIN s |-> s[Len(s) + 1 - i]]

\* C11: destroyObject destroys the layers of the chain top first and base last,
\* then every remaining layer object that is not on the chain, however many
\* there are; when it returns the image holds no layer object.
C11_DestroyLeavesNoLayer ==
  [][last'.op = "destroy_image_object"
     => /\ last'.exc = "none"
        /\ last'.images = << >>
        /\ Len(last'.destroyed) >= Len(Before.names)
        /\ SubSeq(last'.destroyed, 1, Len(Before.names)) = Reverse(Before.names)
        /\ Range(last'.destroyed) = Keys(Before.images)
        /\ \A i \in DOMAIN Before.images :
             Before.images[i].volume \notin DOMAIN resources']_vars

----------------------------------------------------------------------------
(* Cloning an image *)

\* the resource objects a step registers
Created == DOMAIN resources' \ DOMAIN resources

\* the images a step registers
Registered == DOMAIN vt_imgr' \ DOMAIN vt_imgr

\* C12: a clone() that returns gives a new image with another id, a chain of
\* as many layers, every layer on a newly created, bound and allocated
\* resource other than the original layer's; the original image's layers,
\* topology and name, and its resources, are as before.
C12_CloneIsNewAndLeavesOriginal ==
  [][last'.op = "clone" /\ last'.exc = "none"
     => /\ Cardinality(Registered) = 1
        /\ last'.id \notin Registered
        /\ \A c \in Registered :
             /\ vt_imgr'[c].uuid = c
             /\ Len(vt_imgr'[c].names) = Len(Before.names)
             /\ \A i \in DOMAIN vt_imgr'[c].names :
                  /\ vt_imgr'[c].names[i] \in Keys(vt_imgr'[c].images)
                  /\ LET v == Get(vt_imgr'[c].images, vt_imgr'[c].names[i]).volume
                     IN  /\ v \in Created
                         /\ resources'[v].allocated
                         /\ resources'[v].bindings # {}
                         /\ v # Get(Before.images, Before.names[i]).volume
        /\ vt_imgr'[last'.id] = vt_imgr[last'.id]
        /\ \A v \in DOMAIN resources : resources'[v] = resources[v]]_vars

\* a two-layer chain was cloned and the clone is registered beside it
C12_Witness ==
  /\ last.op = "clone" /\ last.exc = "none"
  /\ Cardinality(DOMAIN vt_imgr) = 2
  /\ \A id \in DOMAIN vt_imgr :
       vt_imgr[id].tag = "chain" /\ Len(vt_imgr[id].names) = 2

\* C13: a clone() of a chain of n layers that returns has issued exactly n-1
\* remote rebase calls, base to top, the i-th with source chain[i-1] and
\* target chain[i]; the first call is issued when every layer's new volume is
\* bound and allocated; a clone of a none image issues no remote call.
C13_CloneRebasesBaseToTop ==
  [][last'.op = "clone"
     => /\ last'.calls # << >> =>
             /\ Cardinality(Created) = Len(Before.names)
             /\ \A v \in Created :
                  resources'[v].allocated /\ resources'[v].bindings # {}
        /\ last'.exc = "none" =>
             /\ Len(last'.calls) = Len(Before.names) - 1
             /\ \A i \in DOMAIN last'.calls :
                  /\ last'.calls[i].cmd = "rebase"
                  /\ last'.calls[i].source = Before.names[i]
                  /\ last'.calls[i].target = Before.names[i + 1]
        /\ Before.tag = "none" => last'.calls = << >>]_vars

\* a three-layer chain was cloned: two rebase calls were issued
C13_Witness ==
  /\ last.op = "clone" /\ last.exc = "none"
  /\ Len(vt_imgr[last.id].names) = 3
  /\ Len(last.calls) = 2

\* C14: when a remote rebase call of clone() returns non-zero, clone raises
\* with the remote text, that call is the last one issued, the clone is not
\* registered, and every volume created for the clone stays registered and
\* allocated.
C14_FailedCloneKeepsVolumes ==
  [][/\ last'.op = "clone"
     /\ \E i \in DOMAIN last'.calls : last'.calls[i].r # 0
     => /\ last'.exc = "Exception"
        /\ last'.msg = Last(last'.calls).out
        /\ \A i \in DOMAIN last'.calls :
             last'.calls[i].r # 0 => i = Len(last'.calls)
        /\ vt_imgr' = vt_imgr
        /\ Cardinality(Created) = Len(Before.names)
        /\ \A v \in Created : resources'[v].allocated
        /\ \A v \in DOMAIN resources : resources'[v] = resources[v]]_vars

\* the first of the two rebase calls of a three-layer clone failed
C14_Witness ==
  /\ last.op = "clone" /\ last.exc = "Exception" /\ last.msg \in Outs
  /\ Len(vt_imgr[last.id].names) = 3
  /\ Len(last.calls) = 1
  /\ Cardinality(DOMAIN vt_imgr) = 1
  /\ Cardinality({v \in DOMAIN resources : resources[v].allocated}) = 3

----------------------------------------------------------------------------
(* The node set of addImageObject *)

\* C15: an addImageObject whose requested node set is not a subset of the
\* image's accessible nodes is rejected before any change: layer objects,
\* topology, name and spec.images are as before and no resource object is
\* created.
C15_NodesOutsideAccessRejected ==
  [][last'.op = "add"
     => \A nodes \in NodeArgs :
          /\ nodes # {}
          /\ ~(nodes \subseteq image_access_nodes(Before, resources))
          /\ AddImageObject(last'.id, last'.target, last'.backing_chain, nodes)
          => /\ last'.exc = "ValueError"
             /\ vt_imgr' = vt_imgr
             /\ resources' = resources
             /\ uuid' = uuid]_vars

\* a layer not yet held was to be added on a node the image cannot be reached
\* from, and the add was rejected
C15_Witness ==
  /\ last.op = "add" /\ last.exc = "ValueError"
  /\ last.msg = "should be a subset"
  /\ last.target \notin Keys(vt_imgr[last.id].images)
  /\ image_access_nodes(vt_imgr[last.id], resources) # {}

----------------------------------------------------------------------------
(* Resource pools *)

\* C16: an updateResource whose nodes argument is not a subset of the pool's
\* access nodes raises before the command handler runs: bindings, allocated
\* flag and spec of every resource are as before.
C16_NodesOutsidePoolRejected ==
  [][/\ last'.op = "update_resource"
     /\ last'.nodes # {}
     /\ ~(last'.nodes \subseteq PoolNodes)
     => /\ last'.exc = "ValueError"
        /\ resources' = resources]_vars

\* a bind on a node outside the pool was asked for a registered, unbound
\* resource and was rejected
C16_Witness ==
  /\ last.op = "update_resource" /\ last.cmd = "bind"
  /\ last.nodes = {"n2"} /\ last.found
  /\ last.exc = "ValueError"
  /\ resources[last.id].bindings = {}

\* C17: every resource registered in a pool, through define_resource_config
\* and create_resource_object or through create_resource_object_from, has the
\* pool's id in its pool field for as long as it is registered.
C17_ResourceBelongsToItsPool ==
  \A id \in DOMAIN resources :
    "registry" \in DOMAIN resources[id] =>
      resources[id].pool = resources[id].registry

\* a resource of one pool was the source of a resource created in the other
\* pool, and the source has been bound since
C17_Witness ==
  /\ \E id \in DOMAIN resources, from \in DOMAIN resources :
       /\ resources[id].registry # resources[from].registry
       /\ resources[from].bindings # {}
  /\ last.op = "create_resource_object_from"
  /\ uuid \in DOMAIN resources
  /\ resources[uuid].registry = last.pool

\* the errors a failed lookup of an id ends in
NotFoundErrors == {"KeyError", "AttributeError"}

LookupOps == {"update_resource", "destroy_resource_object", "get_resource_info"}

\* C18: an entry point that takes an id, called with an id that is not
\* registered, fails with a not-found error and leaves the registry
\* unchanged; the not-found error is distinct from the other error kinds: a
\* miss raises nothing else, and a call that finds the id does not raise it.
C18_UnknownIdIsNotFound ==
  [][last'.op \in LookupOps
     => /\ ~last'.found => /\ last'.exc \in NotFoundErrors
                           /\ resources' = resources
        /\ last'.found => last'.exc \notin NotFoundErrors]_vars

----------------------------------------------------------------------------
(* Releasing the storage, and creating the image object *)

C20_CreatedObjectAllocatesNothing ==
  [][last'.op = "create_image_object"
     => /\ last'.exc = "none"
        /\ last'.id \notin DOMAIN vt_imgr
        /\ last'.id \in DOMAIN vt_imgr'
        /\ vt_imgr'[last'.id].uuid = last'.id
        /\ \A i \in DOMAIN After.names :
             /\ After.names[i] \in Keys(After.images)
             /\ Get(After.images, After.names[i]).volume \in Created
             /\ resources'[Get(After.images, After.names[i]).volume].pool = PoolId
        /\ \A i \in DOMAIN After.images :
             ~Allocated(resources', After.images[i])
        /\ last'.calls = << >>]_vars

\* an image with a chain of two layers has just been created
C20_Witness ==
  /\ last.op = "create_image_object" /\ last.exc = "none"
  /\ last.id \in DOMAIN vt_imgr
  /\ vt_imgr[last.id].tag = "chain"
  /\ Len(vt_imgr[last.id].names) = 2
  /\ Len(vt_imgr[last.id].images) = 2

----------------------------------------------------------------------------
(* The lifecycle of a resource *)

\* the nodes a bind or unbind call names: all the pool's nodes when none is given
Named(nodes) == IF nodes = {} THEN PoolNodes ELSE nodes

\* the last two calls were cmd1 and then cmd2 on the same resource of the same
\* pool with the same nodes argument, and both returned
Followed(cmd1, cmd2) ==
  /\ last.op = "update_resource" /\ last.cmd = cmd1
  /\ last.found /\ last.exc = "none"
  /\ last'.op = "update_resource" /\ last'.cmd = cmd2
  /\ last'.found /\ last'.exc = "none"
  /\ last'.id = last.id /\ last'.pool = last.pool /\ last'.nodes = last.nodes

----------------------------------------------------------------------------
(* Backing up an image *)

\* the backup() of the step ran to its remote call
BackedUp ==
  /\ last'.op = "backup"
  /\ last'.calls # << >>
  /\ Last(last'.calls).cmd = "backup"

----------------------------------------------------------------------------
(* The editable options of an image *)

\* C23: update_image(id, {"config": {"name": n, "owner": o}}) sets the image's
\* name to n and its owner to o, so that query_image(n, o) afterwards returns
\* id, and changes no other field of the image.
C23_ConfigSetsNameAndOwner ==
  [][last'.op = "config"
     => /\ last'.exc = "none"
        /\ After.name = last'.name
        /\ After.owner = last'.owner
        /\ query_image(vt_imgr', last'.name, last'.owner) = last'.id
        /\ After = [Before EXCEPT !.name = last'.name, !.owner = last'.owner]
        /\ resources' = resources]_vars

----------------------------------------------------------------------------
(* The order of create() *)

\* the volume of the layer object the image holds under name
VolumeOf(img, name) == Get(img.images, name).volume

\* C24: a create() with no target that reaches its remote call has allocated
\* the volume of every layer of the topology list, base first and top last,
\* all of them before the remote call, and has issued exactly one remote
\* call, a create; with the current top as target it has allocated that
\* layer's volume only, before the remote call.
C24_CreateAllocatesInChainOrder ==
  [][last'.op = "create" /\ last'.calls # << >>
     => /\ Len(last'.calls) = 1
        /\ last'.calls[1].cmd = "create"
        /\ \A i \in DOMAIN last'.updates :
             /\ last'.updates[i].cmd = "allocate"
             /\ last'.updates[i].after = 0
             /\ resources'[last'.updates[i].id].allocated
        /\ last'.target = None =>
             /\ Len(last'.updates) = Len(Before.names)
             /\ \A i \in DOMAIN Before.names :
                  last'.updates[i].id = VolumeOf(Before, Before.names[i])
        /\ Before.names # << >> /\ last'.target = Last(Before.names) =>
             /\ Len(last'.updates) = 1
             /\ last'.updates[1].id = VolumeOf(Before, last'.target)
             /\ \A v \in DOMAIN resources \ {VolumeOf(Before, last'.target)} :
                  resources'[v] = resources[v]]_vars

\* create() with no target has returned on a chain of three layers
C24_Witness ==
  /\ last.op = "create" /\ last.exc = "none" /\ last.target = None
  /\ Len(vt_imgr[last.id].names) = 3
  /\ Len(last.updates) = 3
  /\ \A i \in 1..3 :
       last.updates[i].id = VolumeOf(vt_imgr[last.id], vt_imgr[last.id].names[i])

----------------------------------------------------------------------------
(* The requests passed to the remote agent *)

\* C25: commit, snapshot, info and check each issue exactly one remote call;
\* on status 0 they return (info and check return the remote output), on a
\* non-zero status they raise an error carrying the remote out text; in both
\* cases the image (topology, name, layer objects) and the resources
\* (allocation flags) are as before.
C25_PassThroughChangesNothing ==
  [][last'.op \in PassThroughOps
     => /\ Len(last'.calls) = 1
        /\ last'.calls[1].cmd = last'.op
        /\ last'.calls[1].r = 0 =>
             /\ last'.exc = "none"
             /\ last'.op \in {"info", "check"} => last'.ret = last'.calls[1].out
        /\ last'.calls[1].r # 0 =>
             /\ last'.exc = "Exception"
             /\ last'.msg = last'.calls[1].out
        /\ vt_imgr' = vt_imgr
        /\ resources' = resources]_vars

\* an info on a chain of two layers, the base allocated, has returned the
\* remote output
C25_Witness ==
  /\ last.op = "info" /\ last.exc = "none" /\ last.ret = "done"
  /\ Len(vt_imgr[last.id].names) = 2
  /\ \E i \in DOMAIN vt_imgr[last.id].images :
       Allocated(resources, vt_imgr[last.id].images[i])

----------------------------------------------------------------------------
(* A resource made from another *)

\* C26: create_resource_object_from(resource) of a pool that supports the
\* resource's type registers in that pool one new resource with a new id and
\* a new name, the pool's id in pool, allocated false, no binding and no uri,
\* and leaves the source and every other resource as they were; a pool that
\* does not support the type raises and registers nothing.
C26_ResourceFromIsNewAndReset ==
  [][last'.op = "create_resource_object_from"
     => /\ \A v \in DOMAIN resources : resources'[v] = resources[v]
        /\ last'.pool \in BridgePools =>
             /\ last'.exc = "RuntimeError"
             /\ Created = {}
        /\ last'.pool \in PoolIds =>
             /\ last'.exc = "none"
             /\ Created = {uuid'}
             /\ uuid' # last'.id
             /\ resources'[uuid'].registry = last'.pool
             /\ resources'[uuid'].pool = last'.pool
             /\ ~resources'[uuid'].allocated
             /\ resources'[uuid'].bindings = {}
             /\ resources'[uuid'].uri = None
             /\ resources'[uuid'].type = resources[last'.id].type
             /\ \A v \in DOMAIN resources :
                  resources'[uuid'].name # resources[v].name]_vars

\* a resource of the other pool, with a uri, bound and allocated, was the
\* source of the resource just made
C26_Witness ==
  /\ last.op = "create_resource_object_from" /\ last.exc = "none"
  /\ last.id \in DOMAIN resources /\ uuid \in DOMAIN resources
  /\ resources[last.id].registry # last.pool
  /\ resources[last.id].uri # None
  /\ resources[last.id].allocated
  /\ resources[last.id].bindings # {}
  /\ resources[uuid].registry = last.pool
  /\ resources[uuid].uri = None

----------------------------------------------------------------------------
(* Queries into the configuration document *)

RECURSIVE Exists(_, _, _)
\* every segment of the path, from the i-th on, is a key of the mapping reached
Exists(doc, path, i) ==
  \/ i > Len(path)
  \/ /\ doc.kind = "dict"
     /\ path[i] \in DOMAIN doc.items
     /\ Exists(doc.items[path[i]], path, i + 1)

RECURSIVE ValueAt(_, _, _)
ValueAt(doc, path, i) ==
  IF i > Len(path) THEN doc ELSE ValueAt(doc.items[path[i]], path, i + 1)

\* the errors of a failed lookup
LookupErrors == {"ValueError", "KeyError", "IndexError"}

\* C27: get_image_info(id, request) with request = null returns the whole
\* configuration document; with a path whose every segment exists it returns
\* the value at that path keyed by the last segment; with any unknown segment
\* it raises a lookup error; the call leaves the image's state as it was.
C27_UnknownSegmentIsLookupError ==
  [][last'.op = "get_image_info"
     => /\ last'.request = << >> =>
             last'.exc = "none" /\ last'.ret = image_info(Before)
        /\ last'.request # << >> /\ Exists(image_info(Before), last'.request, 1) =>
             /\ last'.exc = "none"
             /\ last'.ret = Dict((Last(last'.request)
                                    :> ValueAt(image_info(Before), last'.request, 1)))
        /\ ~Exists(image_info(Before), last'.request, 1) =>
             last'.exc \in LookupErrors
        /\ vt_imgr' = vt_imgr
        /\ resources' = resources]_vars

----------------------------------------------------------------------------
(* Pool objects and the cluster they look at *)

\* the access.nodes lists a pool is declared with
DeclaredNodes == {<<"*">>, << >>, <<"n1">>, <<"n2", "n1">>}

\* the node lists the cluster can have, and its partition among them
ClusterLists == {<<"n1", "n2">>, <<"n2">>}

\* the tags of the vm nodes a request names
NodeTags == {"node1", "node2"}

\* cluster.get_node_by_tag(tag).name
get_node_by_tag(tag) == IF tag = "node1" THEN "n1" ELSE "n2"

\* _LinuxBridgeNetwork.define_config: the meta part of the pool's configuration
pool_define_config(pool_name, access_nodes) ==
  [name |-> pool_name, uuid |-> None, type |-> "linux_bridge",
   access |-> [nodes |-> access_nodes]]

\* _ResourcePool.attaching_nodes
attaching_nodes(pool_meta) == pool_meta.access.nodes

\* _ResourcePool.__init__: the pool gets its id; a list with nothing but "*"
\* in it is replaced by the names of all nodes of the cluster
pool_init(pool_config, id, cl) ==
  IF Range(attaching_nodes(pool_config)) \ {"*"} = {}
  THEN [pool_config EXCEPT !.uuid = id, !.access.nodes = cl.nodes]
  ELSE [pool_config EXCEPT !.uuid = id]

\* _check_nodes_access that never looks at the partition
check_nodes_access_without_partition(pool_meta, vm_node_tag, cl) ==
  IF vm_node_tag \notin {None, ""}
  THEN get_node_by_tag(vm_node_tag) \in Range(attaching_nodes(pool_meta))
  ELSE TRUE

\* _LinuxBridgeNetwork._check_nodes_access: a vm_node that is absent or empty
\* is no vm node
check_nodes_access(pool_meta, vm_node_tag, cl) ==
  IF vm_node_tag \notin {None, ""}
  THEN get_node_by_tag(vm_node_tag) \in Range(attaching_nodes(pool_meta))
  ELSE Range(attaching_nodes(pool_meta)) \cap cl.partition # {}

\* _LinuxBridgeNetwork.meet_resource_request
meet_resource_request(pool_meta, resource_type, nettype, vm_node_tag, cl) ==
  IF resource_type \notin {"port"} \/ nettype \notin {"bridge"}
  THEN FALSE
  ELSE check_nodes_access(pool_meta, vm_node_tag, cl)

\* a pool object is constructed from its declaration
CreatePoolObject(pool_name, declared) ==
  /\ uuid + 1 <= MaxPoolUuid
  /\ uuid' = uuid + 1
  /\ pools' = Put(pools, uuid + 1,
                  pool_init(pool_define_config(pool_name, declared),
                            uuid + 1, cluster))
  /\ last' = [op |-> "create_pool_object", pool |-> uuid + 1,
              declared |-> declared]
  /\ UNCHANGED <<vt_imgr, resources, cluster, rebasing, vt_netportmgr>>

\* pool.meet_resource_request(resource_type, resource_params)
MeetResourceRequest(pool_id, resource_type, nettype, vm_node_tag) ==
  /\ pool_id \in DOMAIN pools
  /\ last' = [op |-> "meet_resource_request", pool |-> pool_id,
              type |-> resource_type, nettype |-> nettype,
              vm_node |-> vm_node_tag,
              ret |-> meet_resource_request(pools[pool_id], resource_type,
                                            nettype, vm_node_tag, cluster)]
  /\ UNCHANGED <<vt_imgr, resources, uuid, pools, cluster, rebasing, vt_netportmgr>>

\* nodes join or leave the cluster, and its partition is taken anew
ChangeCluster(nodes, partition) ==
  /\ partition \subseteq Range(nodes)
  /\ cluster # [nodes |-> nodes, partition |-> partition]
  /\ cluster' = [nodes |-> nodes, partition |-> partition]
  /\ last' = [op |-> "change_cluster", pool |-> 0]
  /\ UNCHANGED <<vt_imgr, resources, uuid, pools, rebasing, vt_netportmgr>>

NextBridge ==
  \/ \E pool_name \in BridgePools, declared \in DeclaredNodes :
       CreatePoolObject(pool_name, declared)
  \/ \E pool_id \in 1..MaxPoolUuid, resource_type \in {"port", "volume"},
        nettype \in {"bridge", "user", None},
        vm_node_tag \in NodeTags \cup {None, ""} :
       MeetResourceRequest(pool_id, resource_type, nettype, vm_node_tag)
  \/ \E nodes \in ClusterLists, partition \in SUBSET ClusterNodes :
       ChangeCluster(nodes, partition)

SpecBridge == Init /\ [][NextBridge]_vars

----------------------------------------------------------------------------
(* Claims about pool objects *)

\* a vm node is requested
Requested(vm_node_tag) == vm_node_tag \notin {None, ""}

\* C28: a linux_bridge pool's meet_resource_request returns true exactly when
\* the resource type is "port", the net-type is "bridge", and either the
\* requested vm node is in the pool's access.nodes or, when no node is
\* requested, at least one node of the current cluster partition is in
\* access.nodes; it changes no state.
C28_MeetsRequestExactly ==
  [][last'.op = "meet_resource_request"
     => /\ last'.ret = TRUE
           <=> /\ last'.type = "port"
               /\ last'.nettype = "bridge"
               /\ \/ /\ Requested(last'.vm_node)
                     /\ \E i \in DOMAIN pools[last'.pool].access.nodes :
                          pools[last'.pool].access.nodes[i]
                            = get_node_by_tag(last'.vm_node)
                  \/ /\ ~Requested(last'.vm_node)
                     /\ \E n \in cluster.partition :
                          \E i \in DOMAIN pools[last'.pool].access.nodes :
                            pools[last'.pool].access.nodes[i] = n
        /\ pools' = pools
        /\ cluster' = cluster
        /\ resources' = resources
        /\ vt_imgr' = vt_imgr]_vars

\* no vm node was requested, the partition was n1 alone, and the pool that n2
\* and n1 reach met the request for a bridge port
C28_Witness ==
  /\ last.op = "meet_resource_request"
  /\ last.type = "port" /\ last.nettype = "bridge"
  /\ ~Requested(last.vm_node)
  /\ last.ret
  /\ cluster.partition = {"n1"}
  /\ pools[last.pool].access.nodes = <<"n2", "n1">>

\* C29: a pool's access.nodes is replaced by the list of all cluster nodes at
\* pool construction if and only if it was declared as the wildcard "*"; a
\* pool declared with any other node list keeps exactly that list, and after
\* construction no pool operation and no later change of cluster membership
\* alters access.nodes.
C29_AccessNodesResolvedOnce ==
  [][/\ last'.op = "create_pool_object"
        => attaching_nodes(pools'[last'.pool])
             = IF last'.declared = <<"*">> THEN cluster.nodes
               ELSE last'.declared
     /\ \A p \in DOMAIN pools :
          /\ p \in DOMAIN pools'
          /\ attaching_nodes(pools'[p]) = attaching_nodes(pools[p])]_vars

----------------------------------------------------------------------------
(* Claims about the order of the steps of rebase *)

\* C30: rebase changes the topology list and the image name only after its
\* remote rebase call has returned status 0: if the remote create call or the
\* remote rebase call returns non-zero, rebase raises with the remote text and
\* the topology list, topology tag and name are exactly as before the call
\* (the new layer object added for the target is not rolled back).
C30_RebaseMovesTopologyLast ==
  [][last'.op = "rebase"
     => /\ (After.names # Before.names \/ After.name # Before.name)
           => /\ last'.calls # << >>
              /\ Last(last'.calls).cmd = "rebase"
              /\ Last(last'.calls).r = 0
              /\ last'.exc = "none"
        /\ (last'.calls # << >> /\ Last(last'.calls).r # 0)
           => /\ Last(last'.calls).cmd \in {"create", "rebase"}
              /\ last'.exc = "Exception"
              /\ last'.msg = Last(last'.calls).out
              /\ After.names = Before.names
              /\ After.tag = Before.tag
              /\ After.name = Before.name
              /\ last'.target \notin Keys(Before.images)
              /\ last'.target \in Keys(After.images)]_vars

\* the remote create of a rebase returned 0 and its remote rebase did not:
\* the target's layer object is held outside the topology list
C30_Witness ==
  /\ last.op = "rebase"
  /\ Len(last.calls) = 2
  /\ last.calls[1].cmd = "create" /\ last.calls[1].r = 0
  /\ last.calls[2].cmd = "rebase" /\ last.calls[2].r # 0
  /\ last.exc = "Exception"
  /\ last.id \in DOMAIN vt_imgr
  /\ last.target \in Keys(vt_imgr[last.id].images)
  /\ last.target \notin Range(vt_imgr[last.id].names)

----------------------------------------------------------------------------
(* Claims about the layer objects behind the topology list *)

\* C31: in every reachable state of a created image (after any sequence of
\* accepted or rejected create, destroy, add, remove and rebase calls), every
\* name in the topology list is a key of the image's layer-object mapping:
\* each chain name has a live layer object.
C31_ListedNamesHaveLayerObjects ==
  \A id \in DOMAIN vt_imgr :
    \A i \in DOMAIN vt_imgr[id].names :
      vt_imgr[id].names[i] \in Keys(vt_imgr[id].images)

\* _VirImage.get_image_info(verbose=True): the layers the document sent with
\* a remote call describes, those of image_config and those of self.images
verbose_images(img) == DOMAIN img.spec \cup Keys(img.images)

\* C32: after a successful remove_image_object(target), the configuration
\* document returned by get_image_info (spec.images) no longer contains an
\* entry for target, and the document sent with later remote calls does not
\* describe the removed layer.
C32_RemovedLayerLeavesTheDocument ==
  [][last'.op = "remove" /\ last'.exc = "none"
     => /\ last'.target
             \notin DOMAIN image_info(After).items.spec.items.images.items
        /\ last'.target \notin verbose_images(After)]_vars

----------------------------------------------------------------------------
(* Claims about the resources a pool lets go *)

\* C33: whenever a resource object is removed from its pool's table
\* (destroy_resource_object, called directly, through a layer's
\* destroy_object, or through destroy_image_object), that resource is not
\* marked allocated at that moment.
C33_RemovedResourceIsNotAllocated ==
  [][\A v \in DOMAIN resources \ DOMAIN resources' :
       ~resources[v].allocated]_vars

----------------------------------------------------------------------------
(* Claims about what is left of an image *)

\* C34: after any sequence of add_image_object and remove_image_object calls
\* (accepted or rejected) on a created image, the image holds at least one
\* layer object and its topology list is not empty.
C34_ImageKeepsALayer ==
  \A id \in DOMAIN vt_imgr :
    /\ vt_imgr[id].images # << >>
    /\ vt_imgr[id].names # << >>

----------------------------------------------------------------------------
(* Rebase calls that meet at their remote calls *)

\* _QemuVirImage.create up to its remote call: the checks and the allocation
create_until_remote(s, target, nodes) ==
  LET img == s.img
      image_tags == IF target # None THEN <<target>> ELSE img.names
  IN  IF image_access_nodes(img, s.res) = {}
      THEN Raise(s, "IndexError", "list index out of range")
      ELSE IF not_top_rejected(img, target)
      THEN Raise(s, "ValueError", "Only the top can be created")
      ELSE for_each_layer(s, image_tags, 1, "allocate", nodes)

\* qemu_img_rebase up to the remote call of its create: the top is read into
\* backing, the target's layer object is added and its volume allocated
rebase_until_create(s, target, nodes) ==
  IF s.img.names = << >>
  THEN Raise(s, "IndexError", "list index out of range")
  ELSE LET a == add_image_object(s, target, FALSE, nodes)
       IN  IF a.exc # "none" THEN a ELSE create_until_remote(a, target, {})

\* a thread enters qemu_img_rebase and runs to the remote call of create
RebaseBegin(t, id, target, nodes) ==
  /\ rebasing[t].pc \in {"idle", "done"}
  /\ id \in DOMAIN vt_imgr
  /\ uuid + 1 <= MaxUuid
  /\ Len(vt_imgr[id].names) < MaxChain
  /\ LET s == rebase_until_create(Call(vt_imgr[id], resources, uuid), target, nodes)
     IN  /\ vt_imgr' = Put(vt_imgr, id, s.img)
         /\ resources' = s.res
         /\ uuid' = s.uuid
         /\ rebasing' = [rebasing EXCEPT ![t] =
              [pc |-> IF s.exc = "none" THEN "create" ELSE "done",
               id |-> id, target |-> target,
               backing |-> IF vt_imgr[id].names = << >> THEN None
                           ELSE Last(vt_imgr[id].names),
               exc |-> s.exc, msg |-> s.msg]]
         /\ last' = [op |-> "rebase_begin", id |-> id, target |-> target,
                     exc |-> s.exc, msg |-> s.msg]
  /\ UNCHANGED <<pools, cluster, vt_netportmgr>>

\* the remote call of create returns to the thread: it raises, or goes on to
\* the remote call of the rebase
RebaseCreateReturned(t, result) ==
  /\ rebasing[t].pc = "create"
  /\ rebasing' = [rebasing EXCEPT ![t] =
       IF result.r # 0
       THEN [@ EXCEPT !.pc = "done", !.exc = "Exception", !.msg = result.out]
       ELSE [@ EXCEPT !.pc = "rebase"]]
  /\ last' = [op |-> "rebase_create_returned", id |-> rebasing[t].id,
              target |-> rebasing[t].target,
              exc |-> rebasing'[t].exc, msg |-> rebasing'[t].msg]
  /\ UNCHANGED <<vt_imgr, resources, uuid, pools, cluster, vt_netportmgr>>

\* the remote call of the rebase returns to the thread: it raises, or moves
\* the topology with the backing it read when it entered
RebaseReturned(t, result) ==
  /\ rebasing[t].pc = "rebase"
  /\ LET id == rebasing[t].id
         s == IF result.r # 0
              THEN Raise(Call(vt_imgr[id], resources, uuid), "Exception", result.out)
              ELSE rebase_topology(Call(vt_imgr[id], resources, uuid),
                                   rebasing[t].target, rebasing[t].backing)
     IN  /\ vt_imgr' = Put(vt_imgr, id, s.img)
         /\ resources' = s.res
         /\ uuid' = s.uuid
         /\ rebasing' = [rebasing EXCEPT ![t] =
              [@ EXCEPT !.pc = "done", !.exc = s.exc, !.msg = s.msg]]
         /\ last' = [op |-> "rebase_returned", id |-> id,
                     target |-> rebasing[t].target,
                     exc |-> s.exc, msg |-> s.msg]
  /\ UNCHANGED <<pools, cluster, vt_netportmgr>>

\* images whose rebase calls run in two threads, with no lock
NextRebase ==
  \/ \E p \in Params : CreateImageObject(p)
  \/ \E t \in Threads, id \in DOMAIN vt_imgr, target \in LayerNames :
       RebaseBegin(t, id, target, {})
  \/ \E t \in Threads, result \in RemoteResults : RebaseCreateReturned(t, result)
  \/ \E t \in Threads, result \in RemoteResults : RebaseReturned(t, result)

SpecRebase == Init /\ [][NextRebase]_vars

\* both threads have completed a rebase call on the image
BothCompleted(id) ==
  \A t \in Threads : rebasing[t].pc = "done" /\ rebasing[t].id = id

\* C35: when two rebase calls on the same image interleave at their blocking
\* remote calls (no external lock), then once both have completed every
\* non-base layer's backing still equals its predecessor in the topology list
\* and each target appears exactly once in the list.
C35_InterleavedRebasesKeepTheChain ==
  \A id \in DOMAIN vt_imgr :
    BothCompleted(id)
    => /\ \A i \in 2..Len(vt_imgr[id].names) :
            vt_imgr[id].spec[vt_imgr[id].names[i]].backing
              = vt_imgr[id].names[i - 1]
       /\ \A t \in Threads :
            rebasing[t].exc = "none"
            => Cardinality({i \in DOMAIN vt_imgr[id].names :
                              vt_imgr[id].names[i] = rebasing[t].target}) = 1

----------------------------------------------------------------------------
(* Adding a layer whose object cannot be created *)

\* _QemuVirImage._create_image_object when image.create_object() raises:
\* the resource manager made no volume for the layer
create_image_object_raises(s, image_name) ==
  Raise(s, "Exception", "create_resource_object")

\* _QemuVirImage.add_image_object when the layer object cannot be created
add_image_object_uncreated(s, target, backing_chain, nodes) ==
  LET img == s.img
      access == image_access_nodes(img, s.res)
      node_names == IF nodes # {} THEN nodes ELSE access
      config == define_image_config(target)
  IN  IF target \in Keys(img.images)
      THEN Raise(s, "ValueError", "already existed")
      ELSE IF not_accessible(node_names, access)
      THEN Raise(s, "ValueError", "should be a subset")
      ELSE IF ~backing_chain
      THEN create_image_object_raises(
             [s EXCEPT !.img.spec = Put(@, target, config)], target)
      ELSE IF img.names = << >>
      THEN Raise(s, "IndexError", "list index out of range")
      ELSE create_image_object_raises(
             [s EXCEPT !.img.names = Append(@, target),
                       !.img.name = target,
                       !.img.tag = none_to_chain(@),
                       !.img.spec = Put(@, target,
                                        [config EXCEPT !.backing = Last(img.names)])],
             target)

\* update_image(image_id, {"add": {...}}) while no volume can be made
AddImageObjectUncreated(id, target, backing_chain, nodes) ==
  /\ id \in DOMAIN vt_imgr
  /\ Len(vt_imgr[id].names) < MaxChain
  /\ LET s == add_image_object_uncreated(Call(vt_imgr[id], resources, uuid),
                                         target, backing_chain, nodes)
     IN  /\ Commit(id, s)
         /\ last' = Done("add", id, target, backing_chain, s)

\* images whose layers are added and removed, with and without a volume
NextAdd ==
  \/ \E p \in Params : CreateImageObject(p)
  \/ \E id \in DOMAIN vt_imgr, target \in LayerNames, b \in BOOLEAN, nodes \in NodeArgs :
        AddImageObject(id, target, b, nodes)
  \/ \E id \in DOMAIN vt_imgr, target \in LayerNames, b \in BOOLEAN, nodes \in NodeArgs :
        AddImageObjectUncreated(id, target, b, nodes)
  \/ \E id \in DOMAIN vt_imgr, target \in LayerNames : RemoveImageObject(id, target)

SpecAdd == Init /\ [][NextAdd]_vars

\* C36: if add_image_object with backing_chain fails while creating the new
\* layer object (after the duplicate-name and node-subset checks passed), the
\* image's topology list, topology tag, name and spec.images are the same as
\* before the call.
C36_FailedAddLeavesTheImage ==
  [][/\ last'.op = "add"
     /\ last'.backing_chain
     /\ last'.exc = "Exception"
     => /\ After.names = Before.names
        /\ After.tag = Before.tag
        /\ After.name = Before.name
        /\ After.spec = Before.spec]_vars

----------------------------------------------------------------------------
(* The pool a backup is made in *)

\* the tables resmgr.pools can be, in the order they are iterated: a
\* filesystem pool the image's node reaches, one it does not reach, none
PoolTables ==
  { Pools,
    << [id |-> "pool1", type |-> "nfs", nodes |-> PoolNodes],
       [id |-> "pool2", type |-> "filesystem", nodes |-> {"n2"}] >>,
    << [id |-> "pool1", type |-> "nfs", nodes |-> PoolNodes] >> }

RECURSIVE backup_pool_in(_, _, _, _)
\* pool_id = None; for pool_id in resmgr.pools: if filesystem and node_name
\* in its access nodes: break (the loop variable keeps the last pool's id)
backup_pool_in(table, node_name, i, pool_id) ==
  IF i > Len(table) THEN pool_id
  ELSE IF table[i].type = "filesystem" /\ node_name \in table[i].nodes
  THEN table[i].id
  ELSE backup_pool_in(table, node_name, i + 1, table[i].id)

\* _QemuVirImage.backup with resmgr.pools = table
backup_in(s, table, node_name, postfix, result) ==
  IF image_access_nodes(s.img, s.res) = {}
  THEN Raise(s, "IndexError", "list index out of range")
  ELSE LET b == backup_layers(s, s.img.names, 1, node_name,
                              backup_pool_in(table, node_name, 1, None), postfix)
       IN  IF b.exc # "none" THEN b
           ELSE Remote(b, "backup", None, None, result)

\* _VTImageManager.backup_image while resmgr.pools is table
BackupImageIn(id, table, node_name, postfix, result) ==
  /\ id \in DOMAIN vt_imgr
  /\ uuid + Len(vt_imgr[id].names) <= MaxBackupUuid
  /\ FreshPostfix(vt_imgr[id], postfix)
  /\ image_access_nodes(vt_imgr[id], resources) # {}
       => node_name \in image_access_nodes(vt_imgr[id], resources)
  /\ LET s == backup_in(Call(vt_imgr[id], resources, uuid), table, node_name,
                        postfix, result)
     IN  /\ Commit(id, s)
         /\ last' = Done("backup", id, None, FALSE, s)
                      @@ [pools |-> table, node |-> node_name]

\* images that are backed up under the pool tables
NextBackupIn ==
  \/ \E p \in Params : CreateImageObject(p)
  \/ \E id \in DOMAIN vt_imgr, target \in Targets, result \in RemoteResults :
        Create(id, target, result)
  \/ \E id \in DOMAIN vt_imgr, table \in PoolTables, node_name \in ClusterNodes,
        postfix \in BackupPostfixes, result \in RemoteResults :
        BackupImageIn(id, table, node_name, postfix, result)

SpecBackupIn == Init /\ [][NextBackupIn]_vars

\* the registered filesystem pools the node reaches
Qualifying(table, node_name) ==
  {table[i].id : i \in {j \in DOMAIN table :
                          table[j].type = "filesystem" /\ node_name \in table[j].nodes}}

\* C37: backup() creates every backup resource in a pool of type filesystem
\* whose access nodes include the image's primary node when such a pool is
\* registered; when no registered pool qualifies, each backup resource is
\* created in the pool of the layer's own volume.
C37_BackupPoolIsFilesystemOrOwn ==
  [][BackedUp
     => \A i \in DOMAIN Before.names :
          LET own == resources[Get(Before.images, Before.names[i]).volume].pool
              b == Get(After.images, After.spec[Before.names[i]].backup).volume
          IN  IF Qualifying(last'.pools, last'.node) # {}
              THEN resources'[b].pool \in Qualifying(last'.pools, last'.node)
              ELSE resources'[b].pool = own]_vars

----------------------------------------------------------------------------
(* Cloning a resource inside its pool *)

\* _ResourcePool.clone_resource: the clone is made from the source, given the
\* source's bindings, bound and allocated; the return statement names clone,
\* which is defined nowhere
clone_resource(s, pool_id, id, postfix) ==
  IF id \notin DOMAIN s.res
  THEN Raise(s, "AttributeError", "NoneType") @@ [ret |-> 0]
  ELSE LET c == pool_create_resource_object_from(s, pool_id, s.res[id], postfix)
           cloned == c.uuid
           copied == [c.res[cloned] EXCEPT !.bindings = s.res[id].bindings]
           bound == get_update_handler("bind", copied, {})
           allocated == get_update_handler("allocate", bound, {})
       IN  IF c.exc # "none" THEN c @@ [ret |-> 0]
           ELSE Raise([c EXCEPT !.res = Put(@, cloned, allocated)],
                      "NameError", "name 'clone' is not defined") @@ [ret |-> 0]

\* pool.clone_resource(resource_id)
CloneResource(pool_id, id, postfix) ==
  /\ uuid + 1 <= MaxPoolUuid
  /\ Cardinality(DOMAIN resources) < MaxResources
  /\ id \in DOMAIN PoolResources(pool_id)
       => \A v \in DOMAIN resources :
            resources[v].name # resources[id].name \o "_" \o postfix
  /\ LET s == clone_resource(Call(<< >>, PoolResources(pool_id), uuid), pool_id,
                             id, postfix)
     IN  /\ PoolCommit(pool_id, s)
         /\ last' = PoolDone("clone_resource", pool_id, id, None, {}, s)
                      @@ [ret |-> s.ret]

\* resources that are made, updated and cloned inside their pools
NextCloneResource ==
  \/ \E pool_id \in PoolIds, resource_name \in ResourceNames :
        CreateResourceObject(pool_id, resource_name, resource_name)
  \/ \E pool_id \in PoolIds, id \in Ids, cmd \in Commands, nodes \in NodeArgs :
        UpdateResource(pool_id, id, cmd, nodes)
  \/ \E pool_id \in PoolIds, id \in Ids, postfix \in Postfixes :
        CloneResource(pool_id, id, postfix)

SpecCloneResource == Init /\ [][NextCloneResource]_vars

\* C38: clone_resource(id) on a pool returns the id of a new resource
\* registered in the same pool that carries the same bindings as the source
\* and has been bound and allocated; the source resource is unchanged.
C38_CloneResourceReturnsTheClone ==
  [][last'.op = "clone_resource" /\ last'.found
     => /\ last'.exc = "none"
        /\ Created = {last'.ret}
        /\ resources'[last'.ret].registry = last'.pool
        /\ resources[last'.id].bindings \subseteq resources'[last'.ret].bindings
        /\ resources'[last'.ret].bindings # {}
        /\ resources'[last'.ret].allocated
        /\ resources'[last'.id] = resources[last'.id]]_vars

----------------------------------------------------------------------------
(* The network port manager *)

\* resmgr.define_resource_config(network_port_id, "port", nic_params)
define_port_config(network_port_id) ==
  [name |-> network_port_id, type |-> "port", pool |-> "br0",
   allocated |-> FALSE, bindings |-> {}, uri |-> None]

\* _VTNetworkPortManager.query_all_network_ports_name
query_all_network_ports_name(mgr) == DOMAIN mgr.resource_id

\* _VTNetworkPortManager.define_network_port_object
DefineNetworkPortObject ==
  /\ uuid + 1 <= MaxUuid
  /\ uuid' = uuid + 1
  /\ vt_netportmgr' = [vt_netportmgr EXCEPT
       !.res_config = Put(@, uuid + 1, define_port_config(uuid + 1))]
  /\ last' = [op |-> "define_network_port_object", id |-> uuid + 1,
              exc |-> "none"]
  /\ UNCHANGED <<vt_imgr, resources, pools, cluster, rebasing>>

\* _VTNetworkPortManager.create_network_port_object: the resource manager
\* makes the resource object of the stored config and its id is kept
CreateNetworkPortObject(network_port_id) ==
  /\ uuid + 1 <= MaxUuid
  /\ IF \/ network_port_id \notin DOMAIN vt_netportmgr.res_config
        \/ DOMAIN vt_netportmgr.res_config[network_port_id] = {}
     THEN /\ last' = [op |-> "create_network_port_object",
                      id |-> network_port_id, exc |-> "KeyError"]
          /\ UNCHANGED <<resources, uuid, vt_netportmgr>>
     ELSE LET s == pool_create_resource_object(
                     Call(<< >>, resources, uuid), "br0",
                     vt_netportmgr.res_config[network_port_id])
          IN  /\ resources' = s.res
              /\ uuid' = s.uuid
              /\ vt_netportmgr' = [vt_netportmgr EXCEPT
                   !.resource_id = Put(@, network_port_id, [resource |-> s.uuid])]
              /\ last' = [op |-> "create_network_port_object",
                          id |-> network_port_id, exc |-> s.exc]
  /\ UNCHANGED <<vt_imgr, pools, cluster, rebasing>>

\* _VTNetworkPortManager.destroy_network_port_object: both entries of the
\* port are set to {}, the mapping with no key
DestroyNetworkPortObject(network_port_id) ==
  /\ vt_netportmgr' =
       [res_config |-> Put(vt_netportmgr.res_config, network_port_id, << >>),
        resource_id |-> Put(vt_netportmgr.resource_id, network_port_id, << >>)]
  /\ last' = [op |-> "destroy_network_port_object", id |-> network_port_id,
              exc |-> "none"]
  /\ UNCHANGED <<vt_imgr, resources, uuid, pools, cluster, rebasing>>

\* the entry points of the network port manager
NextNetmgr ==
  \/ DefineNetworkPortObject
  \/ \E network_port_id \in 1..MaxUuid : CreateNetworkPortObject(network_port_id)
  \/ \E network_port_id \in 1..MaxUuid : DestroyNetworkPortObject(network_port_id)

SpecNetmgr == Init /\ [][NextNetmgr]_vars

\* C39: after destroy_network_port_object(id), the port id is no longer
\* listed by query_all_network_ports_name and the resource object created for
\* it no longer exists in the resource manager.
C39_DestroyedPortIsGone ==
  [][/\ last'.op = "destroy_network_port_object"
     /\ last'.id \in DOMAIN vt_netportmgr.resource_id
     /\ DOMAIN vt_netportmgr.resource_id[last'.id] # {}
     => /\ last'.id \notin query_all_network_ports_name(vt_netportmgr')
        /\ vt_netportmgr.resource_id[last'.id].resource \notin DOMAIN resources']_vars

----------------------------------------------------------------------------
(* The bridge pool's configuration as a node sees it *)

\* the pool_params the bridge pools are declared with, by pool name; a value
\* of the spec part is a dict, a str or None
BridgeParams ==
  [br_all |-> [switch |-> [dict |-> ("n1" :> [dict |-> [ifname |-> [str |-> "br0"]]])
                                 @@ ("n2" :> [dict |-> [ifname |-> [str |-> "br1"]]])],
               export |-> [dict |-> ("n1" :> [dict |-> [ifname |-> [str |-> "eth0"]]])
                                 @@ ("n2" :> [dict |-> [ifname |-> [str |-> "eth1"]]])]],
   br_one |-> [switch |-> [dict |-> ("n1" :> [dict |-> [ifname |-> [str |-> "br0"]]])],
               export |-> [dict |-> ("n1" :> [dict |-> [ifname |-> [str |-> "eth0"]]])]],
   br_noexport |-> [switch |-> [dict |-> ("n1" :> [dict |-> [ifname |-> [str |-> "br0"]]])
                                      @@ ("n2" :> [dict |-> [ifname |-> [str |-> "br1"]]])],
                    export |-> [none |-> TRUE]]]

\* x[key] of Python: the error it raises, "none" when it raises none
subscript_error(x, key) ==
  IF "dict" \in DOMAIN x
  THEN IF key \in DOMAIN x.dict THEN "none" ELSE "KeyError"
  ELSE "TypeError"

\* _LinuxBridgeNetwork.define_config: meta and the switch and export maps
bridge_define_config(pool_name, pool_params) ==
  [meta |-> pool_define_config(pool_name, <<"*">>),
   spec |-> [switch |-> pool_params.switch, export |-> pool_params.export]]

\* _LinuxBridgeNetwork.customize_pool_config: config is the pool's own
\* configuration object, and the two assignments are made to it
customize_pool_config(config, node_name) ==
  LET sw == config.spec.switch
      ex == config.spec.export
      e1 == IF subscript_error(sw, node_name) # "none"
            THEN subscript_error(sw, node_name)
            ELSE subscript_error(sw.dict[node_name], "ifname")
      c1 == [config EXCEPT !.spec.switch = sw.dict[node_name].dict["ifname"]]
      e2 == IF subscript_error(ex, node_name) # "none"
            THEN subscript_error(ex, node_name)
            ELSE subscript_error(ex.dict[node_name], "ifname")
      c2 == [c1 EXCEPT !.spec.export = ex.dict[node_name].dict["ifname"]]
  IN  IF e1 # "none" THEN [config |-> config, exc |-> e1, ret |-> [none |-> TRUE]]
      ELSE IF e2 # "none" THEN [config |-> c1, exc |-> e2, ret |-> [none |-> TRUE]]
      ELSE [config |-> c2, exc |-> "none", ret |-> c2]

\* a bridge pool is constructed from its declaration
CreateBridgePool(pool_name) ==
  /\ uuid + 1 <= MaxPoolUuid
  /\ uuid' = uuid + 1
  /\ pools' = Put(pools, uuid + 1,
                  LET config == bridge_define_config(pool_name, BridgeParams[pool_name])
                  IN  [config EXCEPT !.meta = pool_init(config.meta, uuid + 1, cluster)])
  /\ last' = [op |-> "create_pool_object", pool |-> uuid + 1]
  /\ UNCHANGED <<vt_imgr, resources, cluster, rebasing, vt_netportmgr>>

\* pool.customize_pool_config(node_name)
CustomizePoolConfig(pool_id, node_name) ==
  /\ pool_id \in DOMAIN pools
  /\ LET r == customize_pool_config(pools[pool_id], node_name)
     IN  /\ pools' = Put(pools, pool_id, r.config)
         /\ last' = [op |-> "customize_pool_config", pool |-> pool_id,
                     node |-> node_name, exc |-> r.exc, ret |-> r.ret]
  /\ UNCHANGED <<vt_imgr, resources, uuid, cluster, rebasing, vt_netportmgr>>

\* bridge pools are made and their configuration is asked for per node
NextCustomize ==
  \/ \E pool_name \in DOMAIN BridgeParams : CreateBridgePool(pool_name)
  \/ \E pool_id \in 1..MaxPoolUuid, node_name \in ClusterNodes :
       CustomizePoolConfig(pool_id, node_name)

SpecCustomize == Init /\ [][NextCustomize]_vars

\* the per-node maps the pool was declared with
OriginalMaps(pool_id) == BridgeParams[pools[pool_id].meta.name]

\* C40: customize_pool_config(node) leaves the pool's stored configuration as
\* it was, and returns the switch and export interface names that the maps
\* the pool was declared with give for that node.
C40_CustomizeLeavesStoredConfig ==
  [][/\ last'.op = "customize_pool_config"
     /\ subscript_error(OriginalMaps(last'.pool).switch, last'.node) = "none"
     /\ subscript_error(OriginalMaps(last'.pool).export, last'.node) = "none"
     => /\ pools' = pools
        /\ last'.exc = "none"
        /\ last'.ret.spec.switch =
             OriginalMaps(last'.pool).switch.dict[last'.node].dict["ifname"]
        /\ last'.ret.spec.export =
             OriginalMaps(last'.pool).export.dict[last'.node].dict["ifname"]]_vars

====
